---- MODULE Spec2Model ----
(***************************************************************************)
(* Model of the DHGate affiliate-orders scraper (src/main.py):             *)
(*   - the order ledger (SQLite table `orders`) and its three operations,  *)
(*   - the credential cache file (headers_cache.txt),                      *)
(*   - the validity probe, the redirect resolver and DHGateScraper.run.    *)
(* Time is a discrete clock `now`; every datetime.now() reads it.          *)
(***************************************************************************)
EXTENDS Integers, Sequences, FiniteSets, TLC

VARIABLES
    orders,        \* the rows of table `orders` (a set of records)
    now,           \* the wall clock read by datetime.now()
    last_op,       \* the last ledger call made by the caller, with its result
    headers_file,  \* the content of headers_cache.txt (a token sequence), or Missing
    writer,        \* the save_headers_to_cache call in progress, if any
    cache_op,      \* the last finished credential-cache call, with its result
    pc,            \* where DHGateScraper.run stands
    runs,          \* how many times the program has been started
    manual_auth_token,  \* self.manual_auth_token (AUTH_TOKEN of the environment)
    cached_headers,     \* local cached_headers of run
    headers,       \* self.headers, or Unset before it is assigned
    driver,        \* self.driver: "None", "live" or "quit"
    probe,         \* the response of the probe request, until the next step of run
    run_ret,       \* what run returned: "running", "True" or "False"
    todo,          \* orders_to_process still ahead in the loop of process_orders_response
    attempt,       \* loop variable `attempt` for the order at the head of todo
    hist,          \* what the current run has done so far (kept for the properties)
    resolver,      \* the last follow_all_redirects call, with its result
    extraction,    \* the last extract_auth_headers call, with its result
    idle           \* the wait_for_network_idle call in progress, or its result

ledgerVars == <<orders, last_op>>
cacheVars == <<headers_file, writer, cache_op>>
callVars == <<extraction, idle>>
procVars == <<todo, attempt, hist, resolver, callVars>>
runVars == <<pc, runs, manual_auth_token, cached_headers, headers, driver, probe, run_ret,
             todo, attempt, hist, resolver, callVars>>
vars == <<orders, now, last_op, headers_file, writer, cache_op,
          pc, runs, manual_auth_token, cached_headers, headers, driver, probe, run_ret,
          todo, attempt, hist, resolver, callVars>>

----------------------------------------------------------------------------
(* Bounds of the model *)

\* the ledger clock stops here: at most MaxClock ledger calls are explored
MaxClock == 3
\* longest batch of parsed rows handed to save_orders_to_db
MaxBatch == 2
\* the credential-cache clock, in hours, stops here
MaxHours == 25
\* how many times the program is started, one run after the other
MaxRuns == 2
\* the longest timeout of wait_for_network_idle, in half seconds
MaxIdleTimeout == 6
\* follow_all_redirects calls in a row on one scraper
MaxCalls == 2

----------------------------------------------------------------------------
(* The order ledger: src/main.py 67-240 *)

\* SQL NULL in column final_url
NULL == "NULL"

\* values of CSV column 'Order No.' in ascending text order; '' is what
\* order.get('Order No.', '') yields for a row without the column
OrderNoValues == <<"", "A100", "A200">>

\* (Sale Amount(USD), Customize1 ID) pairs of the parsed CSV rows; '' is the
\* default of order.get for a missing column
Payloads == {<<"12.50", "sub1">>, <<"7.00", "">>}

\* URLs a caller passes to update_order_final_url
Urls == {"http://shop/a", "http://shop/b"}

\* one parsed CSV row, as seen through order.get(column, ''); one row stands
\* for the rows without an order number (the loop reads nothing else of them)
Rows ==
    { [order_no |-> "", sale_amount_usd |-> "12.50", customize1_id |-> "sub1"] } \cup
    { [order_no |-> OrderNoValues[i], sale_amount_usd |-> p[1], customize1_id |-> p[2]] :
        i \in 2..Len(OrderNoValues), p \in Payloads }

\* orders_collection: every sequence of at most MaxBatch rows
Batches == UNION { [1..n -> Rows] : n \in 0..MaxBatch }

\* position of an order number in text order (ORDER BY order_no)
OrderNoRank(o) == CHOOSE i \in 1..Len(OrderNoValues) : OrderNoValues[i] = o

\* SELECT order_no FROM orders WHERE order_no = ?
Exists(table, order_no) == \E r \in table : r.order_no = order_no

\* a faulty UPDATE that also stamps created_at
UpdateRow_ResetsCreatedAt(table, row, ts) ==
    { IF r.order_no = row.order_no
        THEN [r EXCEPT !.sale_amount_usd = row.sale_amount_usd,
                       !.customize1_id = row.customize1_id,
                       !.created_at = ts,
                       !.updated_at = ts]
        ELSE r : r \in table }

\* UPDATE orders SET <csv columns>, updated_at = ? WHERE order_no = ?
\* order_no, final_url and created_at are not in the SET list
UpdateRow(table, row, ts) ==
    { IF r.order_no = row.order_no
        THEN [r EXCEPT !.sale_amount_usd = row.sale_amount_usd,
                       !.customize1_id = row.customize1_id,
                       !.updated_at = ts]
        ELSE r : r \in table }

\* INSERT INTO orders (<csv columns>, created_at, updated_at): final_url is
\* not in the column list and takes the column default NULL
InsertRow(table, row, ts) ==
    table \cup { [order_no |-> row.order_no,
                  sale_amount_usd |-> row.sale_amount_usd,
                  customize1_id |-> row.customize1_id,
                  final_url |-> NULL,
                  created_at |-> ts,
                  updated_at |-> ts] }

\* order_no TEXT PRIMARY KEY: an INSERT of a key that is already in the table
\* raises sqlite3.IntegrityError
PrimaryKeyViolation(table, row) == \E r \in table : r.order_no = row.order_no

\* a faulty loop that skips no row
SkipRow_Never(row) == FALSE

\* `if not order_no: continue`
SkipRow(row) == row.order_no = ""

\* a faulty iteration that replaces the whole record (INSERT OR REPLACE), so
\* that final_url falls back to its default
UpsertRow_Replaces(table, row, ts) ==
    IF row.order_no = "" THEN [raised |-> FALSE, table |-> table]
    ELSE [raised |-> FALSE,
          table |-> InsertRow({ r \in table : r.order_no # row.order_no }, row, ts)]

\* one iteration of the for loop of save_orders_to_db; raised: the statement
\* raised an exception
UpsertRow(table, row, ts) ==
    IF SkipRow(row) THEN [raised |-> FALSE, table |-> table]
    ELSE IF Exists(table, row.order_no)
        THEN [raised |-> FALSE, table |-> UpdateRow(table, row, ts)]
    ELSE IF PrimaryKeyViolation(table, row)
        THEN [raised |-> TRUE, table |-> table]
    ELSE [raised |-> FALSE, table |-> InsertRow(table, row, ts)]

\* the for loop of save_orders_to_db over rows i..Len(batch), inside one
\* transaction; an exception leaves the loop
RECURSIVE SaveRows(_, _, _, _)
SaveRows(table, batch, i, ts) ==
    IF i > Len(batch) THEN [raised |-> FALSE, table |-> table]
    ELSE LET step == UpsertRow(table, batch[i], ts)
         IN  IF step.raised THEN step
             ELSE SaveRows(step.table, batch, i + 1, ts)

\* a faulty update that adds the record when there is none
SetFinalUrl_Inserts(table, order_no, final_url, ts) ==
    IF \E r \in table : r.order_no = order_no
        THEN { IF r.order_no = order_no
                 THEN [r EXCEPT !.final_url = final_url, !.updated_at = ts]
                 ELSE r : r \in table }
        ELSE table \cup { [order_no |-> order_no, sale_amount_usd |-> "", customize1_id |-> "",
                           final_url |-> final_url, created_at |-> ts, updated_at |-> ts] }

\* UPDATE orders SET final_url = ?, updated_at = ? WHERE order_no = ?
SetFinalUrl(table, order_no, final_url, ts) ==
    { IF r.order_no = order_no
        THEN [r EXCEPT !.final_url = final_url, !.updated_at = ts]
        ELSE r : r \in table }

\* a faulty query without the WHERE clause
WithoutFinalUrl_NoFilter(table) == table

\* WHERE final_url IS NULL
WithoutFinalUrl(table) == { r \in table : r.final_url = NULL }

\* a faulty query that sorts upwards (ORDER BY order_no)
RECURSIVE OrderByOrderNoDesc_Asc(_)
OrderByOrderNoDesc_Asc(S) ==
    IF S = {} THEN << >>
    ELSE LET low == CHOOSE r \in S :
                      \A q \in S : OrderNoRank(r.order_no) <= OrderNoRank(q.order_no)
         IN  <<low>> \o OrderByOrderNoDesc_Asc(S \ {low})

\* ORDER BY order_no DESC: the rows of S as a sequence, highest order_no first
RECURSIVE OrderByOrderNoDesc(_)
OrderByOrderNoDesc(S) ==
    IF S = {} THEN << >>
    ELSE LET top == CHOOSE r \in S :
                      \A q \in S : OrderNoRank(q.order_no) <= OrderNoRank(r.order_no)
         IN  <<top>> \o OrderByOrderNoDesc(S \ {top})

\* SELECT * FROM orders WHERE final_url IS NULL ORDER BY order_no DESC
SelectWithoutFinalUrl(table) == OrderByOrderNoDesc(WithoutFinalUrl(table))

----------------------------------------------------------------------------
(* The credential cache: src/main.py 331-377 *)

\* os.path.exists(self.headers_file) is False
Missing == [exists |-> FALSE, text |-> << >>]

\* a file holding this JSON text (a sequence of tokens)
FileOf(text) == [exists |-> TRUE, text |-> text]

\* the value None, and a dict, as returned by load_cached_headers
None == [kind |-> "None"]
Dict(d) == [kind |-> "dict", dict |-> d]

\* the empty dict {}
EmptyDict == [k \in {} |-> ""]

\* the keys of self.headers in the order extract_auth_headers builds them
HeaderNames == <<"Cookie", "User-Agent", "Authorization", "Content-Type">>

\* the placeholder extract_auth_token returns when it finds no token
Placeholder == "YOUR_AUTH_TOKEN_HERE"

\* authorization tokens of the portal
Tokens == {"tokA", "tokB"}

\* self.headers as extract_auth_headers assembles it for an extracted token
AssembleHeaders(cookie_string, auth_token) ==
    ("Cookie" :> cookie_string) @@ ("User-Agent" :> "Mozilla/5.0")
        @@ ("Authorization" :> auth_token) @@ ("Content-Type" :> "application/json")

\* the header sets a login hands to save_headers_to_cache
LoginHeaderSets == { AssembleHeaders("sid=1", t) : t \in Tokens }

\* datetime.isoformat(): the text of a clock value
IsoFormat(t) == ToString(t)

\* the clock values datetime.fromisoformat can read back; any other text
\* makes it raise ValueError
IsIsoFormat(text) == \E t \in 0..MaxHours : IsoFormat(t) = text
FromIsoFormat(text) == CHOOSE t \in 0..MaxHours : IsoFormat(t) = text

\* json.dump of a flat dict of strings: its keys and values between braces
RECURSIVE DumpMembers(_, _)
DumpMembers(d, i) ==
    IF i > Len(HeaderNames) THEN << >>
    ELSE (IF HeaderNames[i] \in DOMAIN d
            THEN <<HeaderNames[i], d[HeaderNames[i]]>> ELSE << >>)
         \o DumpMembers(d, i + 1)

DumpDict(d) == <<"{">> \o DumpMembers(d, 1) \o <<"}">>

\* json.dump({'timestamp': ..., 'headers': headers}, f)
JsonDump(timestamp, hdrs) ==
    <<"{", "timestamp", timestamp, "headers">> \o DumpDict(hdrs) \o <<"}">>

\* json.load: a value is a string or an object; an object is "{", then keys
\* each followed by a value, then "}". ok is FALSE where json raises
\* JSONDecodeError; next is the position after the value.
RECURSIVE ParseValue(_, _), ParseMembers(_, _, _)

\* a faulty parser that takes the end of the text for a closing brace
ParseMembers_Lenient(text, i, acc) ==
    IF i > Len(text) THEN [ok |-> TRUE, object |-> TRUE, val |-> acc, next |-> i]
    ELSE IF text[i] = "}" THEN [ok |-> TRUE, object |-> TRUE, val |-> acc, next |-> i + 1]
    ELSE IF text[i] = "{" \/ i + 1 > Len(text)
        THEN [ok |-> TRUE, object |-> TRUE, val |-> acc, next |-> Len(text) + 1]
    ELSE LET v == ParseValue(text, i + 1)
         IN  IF ~v.ok THEN [ok |-> FALSE]
             ELSE ParseMembers(text, v.next, (text[i] :> v) @@ acc)

ParseMembers(text, i, acc) ==
    IF i > Len(text) THEN [ok |-> FALSE]
    ELSE IF text[i] = "}" THEN [ok |-> TRUE, object |-> TRUE, val |-> acc, next |-> i + 1]
    ELSE IF text[i] = "{" THEN [ok |-> FALSE]
    ELSE LET v == ParseValue(text, i + 1)
         IN  IF ~v.ok THEN [ok |-> FALSE]
             ELSE ParseMembers(text, v.next, (text[i] :> v) @@ acc)

ParseValue(text, i) ==
    IF i > Len(text) THEN [ok |-> FALSE]
    ELSE IF text[i] = "{" THEN ParseMembers(text, i + 1, EmptyDict)
    ELSE IF text[i] = "}" THEN [ok |-> FALSE]
    ELSE [ok |-> TRUE, object |-> FALSE, val |-> text[i], next |-> i + 1]

\* json.load(f): the whole text must be one value
JsonLoad(text) ==
    LET v == ParseValue(text, 1)
    IN  IF v.ok /\ v.next = Len(text) + 1 THEN v ELSE [ok |-> FALSE]

\* a parsed flat object of strings as a dict
AsDict(v) == [k \in DOMAIN v.val |-> v.val[k].val]

\* headers_data.get('headers', {}) as a value of load_cached_headers; a
\* 'headers' entry that is a plain string is returned as it is
GetHeaders(data) ==
    IF "headers" \notin DOMAIN data.val THEN Dict(EmptyDict)
    ELSE IF data.val["headers"].object THEN Dict(AsDict(data.val["headers"]))
    ELSE [kind |-> "str", str |-> data.val["headers"].val]

\* time_diff.total_seconds() of a difference of clock values (hours)
TotalSeconds(hours) == hours * 60 * 60

\* a faulty comparison that still takes an age of exactly 24 hours
IsRecent_Inclusive(time_diff) == TotalSeconds(time_diff) <= 24 * 60 * 60

\* `time_diff.total_seconds() < 24 * 60 * 60`
IsRecent(time_diff) == TotalSeconds(time_diff) < 24 * 60 * 60

\* the body of the try block of load_cached_headers: the value it returns, or
\* the exception it raises
LoadBody(file, current_time) ==
    IF ~file.exists THEN [exc |-> "none", value |-> None]
    ELSE LET headers_data == JsonLoad(file.text)
         IN  IF ~headers_data.ok THEN [exc |-> "JSONDecodeError", value |-> None]
             \* `'timestamp' in headers_data` on a JSON string is a substring test
             ELSE IF ~headers_data.object THEN [exc |-> "none", value |-> None]
             ELSE IF "timestamp" \notin DOMAIN headers_data.val
                 THEN [exc |-> "none", value |-> None]
             ELSE IF headers_data.val["timestamp"].object
                 THEN [exc |-> "TypeError", value |-> None]
             ELSE IF ~IsIsoFormat(headers_data.val["timestamp"].val)
                 THEN [exc |-> "ValueError", value |-> None]
             ELSE LET cache_time == FromIsoFormat(headers_data.val["timestamp"].val)
                  IN  IF IsRecent(current_time - cache_time)
                        THEN [exc |-> "none", value |-> GetHeaders(headers_data)]
                        ELSE [exc |-> "none", value |-> None]

\* a faulty handler that catches the JSON error only
Catches_JsonOnly(exc) == exc = "JSONDecodeError"

\* `except Exception as e`
Catches(exc) == exc \in {"JSONDecodeError", "ValueError", "TypeError", "OSError"}

\* load_cached_headers(): raised is TRUE when an exception leaves the method
LoadCachedHeaders(file, current_time) ==
    LET body == LoadBody(file, current_time)
    IN  IF body.exc = "none" THEN [raised |-> FALSE, value |-> body.value]
        ELSE IF Catches(body.exc) THEN [raised |-> FALSE, value |-> None]
        ELSE [raised |-> TRUE, value |-> None]

\* the header set a complete cache file stores, whatever its age
StoredHeaders(file) ==
    IF ~file.exists THEN None
    ELSE LET headers_data == JsonLoad(file.text)
         IN  IF headers_data.ok /\ headers_data.object THEN GetHeaders(headers_data)
             ELSE None

\* files that no save_headers_to_cache wrote in full: an empty file, text
\* that is not JSON, a JSON string, an object without 'timestamp', an object
\* whose timestamp is no ISO date, an object whose timestamp is an object
DamagedFiles ==
    { FileOf(<< >>),
      FileOf(<<"}", "{">>),
      FileOf(<<"timestamp">>),
      FileOf(<<"{", "headers">> \o DumpDict(AssembleHeaders("sid=1", "tokA")) \o <<"}">>),
      FileOf(JsonDump("yesterday", AssembleHeaders("sid=1", "tokA"))),
      FileOf(<<"{", "timestamp", "{", "}", "}">>) }

----------------------------------------------------------------------------
(* The validity probe and token extraction: src/main.py 379-412, 569-602,  *)
(* 691-793                                                                 *)

\* self.headers before extract_auth_headers or run assigns it
Unset == [kind |-> "unset"]

\* no response at hand
NoResponse == [raised |-> FALSE, status_code |-> 0, body |-> [kind |-> "none"]]

\* `needle in text` for texts as word sequences
Contains(text, needle) ==
    \E i \in 1..(Len(text) - Len(needle) + 1) :
        SubSeq(text, i, i + Len(needle) - 1) = needle

\* the phrase test_headers_validity looks for
TokenInvalid == <<"Token", "invalid">>

\* msg values of a response body: the key is absent, is null, or is a text
Msgs ==
    { [kind |-> "absent", text |-> << >>], [kind |-> "null", text |-> << >>] } \cup
    { [kind |-> "str", text |-> t] :
        t \in { <<"Token", "invalid">>,
                <<"Error:", "Token", "invalid", "or", "expired">>,
                <<"token", "invalid">>,
                <<"Success">> } }

\* response bodies: a JSON object {success, msg, data}, a JSON array, or text
\* that is not JSON
Bodies ==
    { [kind |-> "object", success |-> s, msg |-> m, data |-> d] :
        s \in {"absent", "true", "false"}, m \in Msgs,
        d \in { << >>, <<"Token", "invalid">> } } \cup
    { [kind |-> "array"] } \cup
    { [kind |-> "text", text |-> t] :
        t \in { <<"<html>", "Token", "invalid", "</html>">>, <<"<html>", "</html>">> } }

\* what requests.post yields: a response with a status code and a body, or
\* an exception (timeout, connection error)
Responses ==
    { [raised |-> TRUE] } \cup
    { [raised |-> FALSE, status_code |-> c, body |-> b] : c \in {200, 401}, b \in Bodies }

\* a faulty check that never finds the success flag set
SuccessFlag_Never(body) == FALSE

\* response_data.get('success', False) is truthy
SuccessFlag(body) == body.success = "true"

\* a faulty check that never sees the phrase
MsgSaysTokenInvalid_Never(body) == FALSE

\* 'Token invalid' in response_data.get('msg', '') for a msg that is a text
MsgSaysTokenInvalid(body) ==
    body.msg.kind = "str" /\ Contains(body.msg.text, TokenInvalid)

\* a faulty probe that takes every outcome for valid
TestHeadersValidity_FailOpen(response) == TRUE

\* test_headers_validity(headers) on the response it received: any exception
\* (the request, response.json() on a body that is not JSON, .get on a value
\* that is no object, `in` on a null msg) is caught and yields False
TestHeadersValidity(response) ==
    IF response.raised THEN FALSE
    ELSE IF response.status_code = 200
        THEN IF response.body.kind # "object" THEN FALSE
             ELSE IF SuccessFlag(response.body) THEN TRUE
             ELSE IF response.body.msg.kind = "null" THEN FALSE
             ELSE IF MsgSaysTokenInvalid(response.body) THEN FALSE
             ELSE TRUE
    ELSE FALSE

\* the value None as a token (extract_auth_token after an exception)
NoToken == "<None>"

\* what one extraction strategy finds: nothing (''), the placeholder text, or
\* a token
Finds == {"", Placeholder} \cup Tokens

\* the page after login: what each strategy of extract_auth_token finds, and
\* whether the first script call raises
Pages ==
    [raises : BOOLEAN, storage : Finds, globals : Finds, meta : Finds, script : Finds]

\* a faulty search that looks at the browser storage only
ExtractAuthToken_StorageOnly(page) ==
    IF page.raises THEN NoToken
    ELSE IF page.storage # "" THEN page.storage
    ELSE Placeholder

\* extract_auth_token(): the first strategy that finds a non-empty value
\* returns it; with none, the placeholder is returned
ExtractAuthToken(page) ==
    IF page.raises THEN NoToken
    ELSE IF page.storage # "" THEN page.storage
    ELSE IF page.globals # "" THEN page.globals
    ELSE IF page.meta # "" THEN page.meta
    ELSE IF page.script # "" THEN page.script
    ELSE Placeholder

\* how many of the four strategies extract_auth_token runs on the page:
\* storage, global variables, meta tags, script contents
StrategiesRun(page) ==
    IF page.raises THEN 1
    ELSE IF page.storage # "" THEN 1
    ELSE IF page.globals # "" THEN 2
    ELSE IF page.meta # "" THEN 3
    ELSE 4

\* a faulty choice that never looks at the manual token
AuthToken_IgnoresManual(manual, extracted) == extracted

\* `if self.manual_auth_token: auth_token = self.manual_auth_token`, after
\* auth_token = self.extract_auth_token()
AuthToken(manual, extracted) == IF manual # "" THEN manual ELSE extracted

\* a faulty guard that rejects only a missing token
TokenRejected_EmptyOnly(auth_token) == auth_token \in {"", NoToken}

\* `not auth_token or auth_token == "YOUR_AUTH_TOKEN_HERE"`
TokenRejected(auth_token) == auth_token \in {"", NoToken} \/ auth_token = Placeholder

\* extract_auth_headers(): ok is its return value, headers the new value of
\* self.headers. cookiesRaise: driver.get_cookies() raises
ExtractAuthHeaders(page, cookiesRaise, manual, old_headers) ==
    IF cookiesRaise THEN [ok |-> FALSE, headers |-> old_headers]
    ELSE LET extracted == ExtractAuthToken(page)
             auth_token == AuthToken(manual, extracted)
         IN  IF TokenRejected(auth_token) THEN [ok |-> FALSE, headers |-> old_headers]
             ELSE [ok |-> TRUE, headers |-> Dict(AssembleHeaders("sid=1", auth_token))]

\* `if cached_headers:` a dict with at least one key
Truthy(value) == value.kind = "dict" /\ DOMAIN value.dict # {}

----------------------------------------------------------------------------
(* The browser session and the redirect resolver: src/main.py 414-445,     *)
(* 605-689                                                                 *)

\* max_redirects values tried besides the default: 1..MaxRedirectsTried
MaxRedirectsTried == 3

\* `max_redirects=10`, the default of follow_all_redirects
DefaultMaxRedirects == 10

\* `max_redirects=2`, the budget process_orders_response calls with
CallMaxRedirects == 2

\* the budgets follow_all_redirects is called with
Budgets == <<CallMaxRedirects, DefaultMaxRedirects>> \o [i \in 1..MaxRedirectsTried |-> i]

\* the value None as a returned URL
NoUrl == "<None>"

\* the conversion link built for an order, and the URLs it can lead to
Seed == "https://izeeto.com/conv"
ResolverUrls == {Seed, "http://shop/a", "http://shop/b", "http://shop/c"}

\* outcomes of setup_driver: the session starts; uc.Chrome raises and
\* self.driver stays as it was; or uc.Chrome returns, self.driver is assigned
\* and the execute_script after it raises
SetupOutcomes == {"ok", "chrome_raises", "script_raises"}

\* setup_driver(): ok is its return value, driver the new self.driver,
\* started: uc.Chrome returned a new session
SetupDriver(drv, outcome) ==
    IF outcome = "ok" THEN [ok |-> TRUE, driver |-> "live", started |-> TRUE]
    ELSE IF outcome = "script_raises" THEN [ok |-> FALSE, driver |-> "live", started |-> TRUE]
    ELSE [ok |-> FALSE, driver |-> drv, started |-> FALSE]

\* a faulty test that asks for a new session each time
NeedsDriver_Always(drv) == TRUE

\* `if not self.driver:`
NeedsDriver(drv) == drv = "None"

\* what the browser shows for one URL. raises: driver.get raises; landed:
\* driver.current_url after the load; content: the markers page_source
\* holds; after_wait: driver.current_url 3 seconds later; after_long_wait:
\* driver.current_url 5 more seconds later
Page(raises, landed, content, after_wait, after_long_wait) ==
    [raises |-> raises, landed |-> landed, content |-> content,
     after_wait |-> after_wait, after_long_wait |-> after_long_wait]

\* the pages one URL can show: a final page, a page that calls
\* history.back(), script redirects that fire or not, a load that fails, and
\* a redirect to another URL during the load
WebPages(u) ==
    { Page(FALSE, u, {}, u, u),
      Page(FALSE, u, {"window.history.back()"}, u, u),
      Page(FALSE, u, {"window.location"}, u, u),
      Page(FALSE, u, {"redirecting"}, u, u),
      Page(TRUE, u, {}, u, u) } \cup
    { Page(FALSE, t, {}, t, t) : t \in ResolverUrls \ {u} } \cup
    { Page(FALSE, u, {"window.location"}, t, t) : t \in ResolverUrls \ {u} } \cup
    { Page(FALSE, u, {"redirecting"}, u, t) : t \in ResolverUrls \ {u} }

\* the web during one follow_all_redirects call: a page for each URL
Webs ==
    { (Seed :> s) @@ ("http://shop/a" :> a) @@ ("http://shop/b" :> b) @@ ("http://shop/c" :> c) :
        s \in WebPages(Seed), a \in WebPages("http://shop/a"),
        b \in WebPages("http://shop/b"), c \in WebPages("http://shop/c") }

\* what follow_all_redirects returns (ret) and how it got there: the log
\* line it ends with, the URLs handed to driver.get, redirect_count and
\* current_url at the end
Resolved(outcome, ret, navigated, redirect_count, current_url) ==
    [outcome |-> outcome, ret |-> ret, navigated |-> navigated,
     redirect_count |-> redirect_count, current_url |-> current_url]

\* a faulty loop test that allows one hop more
WithinBudget_OneMore(redirect_count, max_redirects) == redirect_count <= max_redirects

\* `while redirect_count < max_redirects`
WithinBudget(redirect_count, max_redirects) == redirect_count < max_redirects

\* a faulty test that finds no URL visited
AlreadyVisited_Never(current_url, visited_urls) == FALSE

\* `if current_url in visited_urls`
AlreadyVisited(current_url, visited_urls) == current_url \in visited_urls

\* a faulty test that finds no page invalid
SendsBack_Never(content) == FALSE

\* `if 'window.history.back()' in page_content:`
SendsBack(content) == "window.history.back()" \in content

\* a faulty test that takes no page for a redirect page
LooksLikeRedirect_Never(content) == FALSE

\* `'redirecting' in page_content.lower() or 'window.location' in page_content`
LooksLikeRedirect(content) == "redirecting" \in content \/ "window.location" \in content

\* the while loop of follow_all_redirects
RECURSIVE FollowLoop(_, _, _, _, _, _)
FollowLoop(web, current_url, redirect_count, visited_urls, navigated, max_redirects) ==
    IF ~WithinBudget(redirect_count, max_redirects)
        THEN Resolved("max_redirects", NoUrl, navigated, redirect_count, current_url)
    ELSE IF AlreadyVisited(current_url, visited_urls)
        THEN Resolved("circular", NoUrl, navigated, redirect_count, current_url)
    ELSE LET page == web[current_url]
             visited == visited_urls \cup {current_url}
             gets == Append(navigated, current_url)
         IN  IF page.raises
                 THEN Resolved("error", NoUrl, gets, redirect_count, current_url)
             ELSE IF page.landed # current_url
                 THEN FollowLoop(web, page.landed, redirect_count + 1, visited, gets,
                                 max_redirects)
             ELSE IF SendsBack(page.content)
                 THEN Resolved("invalid", NoUrl, gets, redirect_count, current_url)
             ELSE IF LooksLikeRedirect(page.content) /\ page.after_wait # current_url
                 THEN FollowLoop(web, page.after_wait, redirect_count + 1, visited, gets,
                                 max_redirects)
             ELSE IF /\ "redirecting" \in page.content
                     /\ redirect_count < max_redirects
                     /\ page.after_long_wait # current_url
                 THEN FollowLoop(web, page.after_long_wait, redirect_count + 1, visited,
                                 gets, max_redirects)
             ELSE Resolved("final", page.landed, gets, redirect_count, current_url)

\* what a session shows: a session that was quit has no browser behind it,
\* every driver.get on it raises
SessionWeb(drv, web) ==
    IF drv = "quit" THEN [u \in DOMAIN web |-> Page(TRUE, u, {}, u, u)] ELSE web

\* follow_all_redirects(url, order_id, max_redirects): the result of the
\* call, self.driver after it and whether a session was started. setup: the
\* outcome of setup_driver, when it is called
FollowAllRedirects(web, url, max_redirects, drv, setup) ==
    IF NeedsDriver(drv)
        THEN LET s == SetupDriver(drv, setup)
             IN  IF ~s.ok
                   THEN [result |-> Resolved("no_driver", NoUrl, << >>, 0, url),
                         driver |-> s.driver, started |-> s.started]
                   ELSE [result |-> FollowLoop(web, url, 0, {}, << >>, max_redirects),
                         driver |-> s.driver, started |-> s.started]
        ELSE [result |-> FollowLoop(SessionWeb(drv, web), url, 0, {}, << >>, max_redirects),
              driver |-> drv, started |-> FALSE]

----------------------------------------------------------------------------
(* The export and its processing: src/main.py 242-283, 795-984 *)

\* a faulty error path that leaves the statements executed so far in the
\* database (a commit per row)
DroppedTransaction_Kept(before, pending) == pending

\* `except Exception: ... return False` without conn.commit(): the connection
\* goes away with its open transaction, the database keeps the rows it had
\* before the call
DroppedTransaction(before, pending) == before

\* save_orders_to_db(orders_collection, columns) where the database raises at
\* the statement for row failAt (0: never; Len(batch) + 1: at the commit):
\* the rows before failAt were written inside the transaction
SaveOrdersToDbAt(table, batch, failAt, ts) ==
    LET tried == IF failAt = 0 THEN batch ELSE SubSeq(batch, 1, failAt - 1)
        done == SaveRows(table, tried, 1, ts)
    IN  IF failAt # 0 \/ done.raised
          THEN [ret |-> FALSE, table |-> DroppedTransaction(table, done.table)]
          ELSE [ret |-> TRUE, table |-> done.table]

\* save_orders_to_db(orders_collection, columns): ret is its return value,
\* table the rows after it. dbError: the database raises before the commit
SaveOrdersToDb(table, batch, dbError, ts) ==
    SaveOrdersToDbAt(table, batch, IF dbError THEN 1 ELSE 0, ts)

\* list.sort(key=order_no, reverse=True) is stable: a row goes behind the
\* rows whose order number is not lower than its own
RECURSIVE InsertDesc(_, _)
InsertDesc(sorted, row) ==
    IF sorted = << >> THEN <<row>>
    ELSE IF OrderNoRank(Head(sorted).order_no) >= OrderNoRank(row.order_no)
        THEN <<Head(sorted)>> \o InsertDesc(Tail(sorted), row)
    ELSE <<row>> \o sorted

\* orders_collection.sort(key=lambda x: x.get('Order No.', ''), reverse=True)
RECURSIVE SortDesc(_)
SortDesc(batch) ==
    IF batch = << >> THEN << >>
    ELSE InsertDesc(SortDesc(SubSeq(batch, 1, Len(batch) - 1)), batch[Len(batch)])

\* the data rows of an export: every batch of rows that have an order number
ExportBatches == { b \in Batches : \A i \in 1..Len(b) : b[i].order_no # "" }

\* the CSV columns save_orders_to_db reads in this model
ColOrderNo == "Order No."
ColSaleAmount == "Sale Amount(USD)"
ColCustomize1 == "Customize1 ID"

\* header rows of the CSV text: the columns in the order of the portal, in
\* another order, and without the sub-id column
CsvHeaders ==
    { <<ColOrderNo, ColSaleAmount, ColCustomize1>>,
      <<ColCustomize1, ColSaleAmount, ColOrderNo>>,
      <<ColOrderNo, ColSaleAmount>> }

\* the cell of a row under a column of the header
Cell(row, column) ==
    IF column = ColOrderNo THEN row.order_no
    ELSE IF column = ColSaleAmount THEN row.sale_amount_usd
    ELSE row.customize1_id

\* the lines csv.reader yields for a CSV text: the header, then one line of
\* cells per row
CsvLines(header, batch) ==
    <<header>> \o [i \in 1..Len(batch) |-> [j \in 1..Len(header) |-> Cell(batch[i], header[j])]]

\* CSV texts of an export: complete ones, one with an empty line and a line
\* cut short, and one whose line is longer than the header
CsvTexts ==
    { CsvLines(h, b) : h \in CsvHeaders, b \in ExportBatches } \cup
    { << <<ColOrderNo, ColSaleAmount, ColCustomize1>>, << >>, <<"A100", "12.50">> >>,
      << <<ColOrderNo, ColSaleAmount>>, <<"A200", "7.00", "sub1">> >> }

\* `for i, value in enumerate(row): if i < len(columns): order_dict[columns[i]]
\* = value`: a dict from column names to cells; cells beyond the header are
\* dropped, a column named twice keeps its last cell
OrderDict(columns, row) ==
    LET filled == { i \in 1..Len(row) : i <= Len(columns) }
    IN  [c \in { columns[i] : i \in filled } |->
            row[CHOOSE i \in filled :
                    columns[i] = c /\ \A k \in filled : columns[k] = c => k <= i]]

\* order.get(column, '')
Get(order, column) == IF column \in DOMAIN order THEN order[column] ELSE ""

\* a faulty reading that takes the sub-id from the amount column
DbData_MixesColumns(order) ==
    [order_no |-> Get(order, ColOrderNo),
     sale_amount_usd |-> Get(order, ColSaleAmount),
     customize1_id |-> Get(order, ColSaleAmount)]

\* save_orders_to_db: order_no and db_data, the values read from one dict
DbData(order) ==
    [order_no |-> Get(order, ColOrderNo),
     sale_amount_usd |-> Get(order, ColSaleAmount),
     customize1_id |-> Get(order, ColCustomize1)]

\* process_orders_response: `if orders:` columns = orders[0], data_rows =
\* orders[1:] and one dict per data row, here as save_orders_to_db reads it
OrdersCollection(lines) ==
    IF lines = << >> THEN << >>
    ELSE [i \in 1..(Len(lines) - 1) |-> DbData(OrderDict(lines[1], lines[i + 1]))]

\* `.lower()` of a word
LowerWord(w) ==
    IF w \in {"No", "NO"} THEN "no"
    ELSE IF w \in {"Data", "DATA"} THEN "data"
    ELSE IF w \in {"To", "TO"} THEN "to"
    ELSE IF w \in {"Export", "EXPORT"} THEN "export"
    ELSE IF w = "Sorry," THEN "sorry,"
    ELSE IF w = "Token" THEN "token"
    ELSE IF w = "Success" THEN "success"
    ELSE w

\* error_msg.lower() for a text as a word sequence
Lower(text) == [i \in 1..Len(text) |-> LowerWord(text[i])]

\* the sentinel of an export without orders
NoDataToExport == <<"no", "data", "to", "export">>

\* msg values of an export body: the key is absent, is null, or is a text
ExportMsgs ==
    { [kind |-> "absent", text |-> << >>], [kind |-> "null", text |-> << >>] } \cup
    { [kind |-> "str", text |-> t] :
        t \in { <<"Success">>,
                <<"no", "data", "to", "export">>,
                <<"No", "data", "to", "export">>,
                <<"NO", "DATA", "TO", "EXPORT">>,
                <<"Sorry,", "no", "data", "to", "export", "today">>,
                <<"no", "data">>,
                <<"Token", "invalid">> } }
Msg(text) == [kind |-> "str", text |-> text]
NullMsg == [kind |-> "null", text |-> << >>]

\* a response body of the export request. kind "json": a JSON object with
\* success, code, data ("null", "empty" for '' or an absent key, "csv" for a
\* CSV text, "object" for another JSON value) and msg; "array": other JSON;
\* "csv": text that starts with 'Order No.,'; "text": anything else. rows:
\* the lines of the CSV text
Payload(kind, success, code, data, msg, rows) ==
    [kind |-> kind, success |-> success, code |-> code, data |-> data, msg |-> msg,
     rows |-> rows]

ExportPayloads ==
    { Payload("json", TRUE, 0, d, Msg(<<"Success">>), << >>) : d \in {"null", "empty", "object"} } \cup
    { Payload("json", s, c, "null", m, << >>) :
        s \in BOOLEAN, c \in {0, 1}, m \in ExportMsgs } \cup
    { Payload("array", FALSE, 1, "null", NullMsg, << >>),
      Payload("text", FALSE, 1, "null", NullMsg, << >>) } \cup
    { Payload("json", TRUE, 0, "csv", Msg(<<"Success">>), t) : t \in CsvTexts } \cup
    { Payload("csv", FALSE, 1, "null", NullMsg, t) :
        t \in { u \in CsvTexts : u[1][1] = ColOrderNo } }

\* what requests.post yields for the export request: an exception, or a
\* response with a status code and a body
NoPayload == Payload("none", FALSE, 1, "null", NullMsg, << >>)
NoExport == [raised |-> FALSE, status_code |-> 0, payload |-> NoPayload]
ExportResponses ==
    { [raised |-> TRUE, status_code |-> 0, payload |-> NoPayload],
      [raised |-> FALSE, status_code |-> 500, payload |-> Payload("text", FALSE, 1, "null", NullMsg, << >>)],
      [raised |-> FALSE, status_code |-> 500,
       payload |-> Payload("json", FALSE, 1, "null", Msg(<<"no", "data", "to", "export">>), << >>)] }
    \cup { [raised |-> FALSE, status_code |-> 200, payload |-> p] : p \in ExportPayloads }

\* a faulty test that compares the text as it came
SaysNoData_CaseSensitive(msg) == Contains(msg.text, NoDataToExport)

\* `'no data to export' in error_msg.lower()`
SaysNoData(msg) == Contains(Lower(msg.text), NoDataToExport)

\* a faulty parser that takes a body that is neither JSON nor CSV for a CSV
\* text without lines
ParseExport_Lenient(payload) ==
    IF payload.kind \in {"csv", "text"} THEN "rows" ELSE "False"

\* process_orders_response up to the CSV text: "True" and "False" are early
\* returns (also through `except Exception`: .get on a JSON array, .lower()
\* on a null msg, .replace on data that is no text), "rows" goes on with the
\* CSV text. An absent msg reads as 'Unknown error'
ParseExport(payload) ==
    IF payload.kind = "json"
        THEN IF payload.success /\ payload.code = 0
               THEN IF payload.data \in {"null", "empty"} THEN "True"
                    ELSE IF payload.data = "csv" THEN "rows"
                    ELSE "False"
               ELSE IF payload.msg.kind = "null" THEN "False"
                    ELSE IF payload.msg.kind = "str" /\ SaysNoData(payload.msg) THEN "True"
                    ELSE "False"
    ELSE IF payload.kind = "csv" THEN "rows"
    ELSE "False"

\* what import_existing_csv_data finds in the download directory: no
\* report_*.csv (or an error on the way), or the rows of the latest one
ImportFinds ==
    { << >>, <<[order_no |-> "A200", sale_amount_usd |-> "7.00", customize1_id |-> ""]>> }

\* import_existing_csv_data(): called: save_orders_to_db was called
ImportExistingCsv(table, found, dbError, ts) ==
    IF table # {} \/ found = << >> THEN [called |-> FALSE, table |-> table]
    ELSE [called |-> TRUE, table |-> SaveOrdersToDb(table, found, dbError, ts).table]

\* `if order_id and subid:` for a record of the ledger
HasIdAndSubid(order) == order.order_no # "" /\ order.customize1_id # ""

\* `max_retries = 3`
MaxRetries == 3

\* a faulty test that allows one attempt more
AttemptAgain_OneMore(n) == n < MaxRetries

\* `if attempt < max_retries - 1:` ... `continue`
AttemptAgain(n) == n < MaxRetries - 1

\* a faulty loop that gives up the batch after one order
NextOrders_Abort(orders_to_process) == << >>

\* `for order in orders_to_process:` goes to the next order
NextOrders(orders_to_process) == Tail(orders_to_process)

\* a faulty return that reports failure when an order stayed unresolved
LoopReturn_AllResolved(listed, got_url) == listed \subseteq got_url

\* `return True` after the loop over orders_to_process
LoopReturn(listed, got_url) == TRUE

\* the webs the orders of a run lead to: a redirect to a shop page, a
\* script redirect to another, a seed that comes back to itself, a chain of
\* three redirects, a page that calls history.back(), a load that fails
PlainWeb == [u \in ResolverUrls |-> Page(FALSE, u, {}, u, u)]
RunWebs ==
    { [PlainWeb EXCEPT ![Seed] = Page(FALSE, "http://shop/a", {}, "http://shop/a", "http://shop/a")],
      [PlainWeb EXCEPT ![Seed] = Page(FALSE, Seed, {"window.location"}, "http://shop/b", "http://shop/b")],
      [PlainWeb EXCEPT ![Seed] = Page(FALSE, "http://shop/a", {}, "http://shop/a", "http://shop/a"),
                       !["http://shop/a"] = Page(FALSE, Seed, {}, Seed, Seed)],
      [PlainWeb EXCEPT ![Seed] = Page(FALSE, "http://shop/a", {}, "http://shop/a", "http://shop/a"),
                       !["http://shop/a"] = Page(FALSE, "http://shop/b", {}, "http://shop/b", "http://shop/b"),
                       !["http://shop/b"] = Page(FALSE, "http://shop/c", {}, "http://shop/c", "http://shop/c")],
      [PlainWeb EXCEPT ![Seed] = Page(FALSE, Seed, {"window.history.back()"}, Seed, Seed)],
      [PlainWeb EXCEPT ![Seed] = Page(TRUE, Seed, {}, Seed, Seed)] }

\* a faulty run that writes the cached headers back to the cache file
RunAfterProbe_Resaves(valid) == IF valid THEN "save" ELSE "login"

\* run: `if self.test_headers_validity(cached_headers):` ... `else:` login
RunAfterProbe(valid) == IF valid THEN "import" ELSE "login"

\* what login meets at the form
FormOutcomes == {"timeout", "no_password", "submitted", "body_timeout"}

\* a faulty login that gives up when no email input appears
LoginAfterForm_TimeoutFails(outcome) ==
    IF outcome \in {"no_password", "timeout"} THEN "return" ELSE "settle"

\* login: `except TimeoutException:` goes on to wait_for_network_idle; any
\* other exception leaves through `except Exception: return False`
LoginAfterForm(outcome) == IF outcome = "no_password" THEN "return" ELSE "settle"

\* a faulty login that opens the portal again when no token was found
LoginAfterExtract_Retry(ok) == IF ok THEN "save" ELSE "navigate"

\* login: `if self.extract_auth_headers():` save and return True, `else:
\* return False`
LoginAfterExtract(ok) == IF ok THEN "save" ELSE "return"

\* a faulty run that goes on after a failed login
RunAfterLogin_GoesOn(ok) == "import"

\* run: `if not self.login(): return False`
RunAfterLogin(ok) == IF ok THEN "import" ELSE "finally"

\* the order numbers of the records without final_url
OpenOrders(table) == { r.order_no : r \in WithoutFinalUrl(table) }

\* the final_url of the record update_order_final_url is called for
FinalUrlOf(table, order_no) ==
    IF Exists(table, order_no)
      THEN (CHOOSE r \in table : r.order_no = order_no).final_url
      ELSE "absent"

\* a faulty processing that goes on to the ledger after a no-data answer
GoesOnToLedger_AfterNoData(parsed) == parsed \in {"rows", "True"}

\* process_orders_response: the early `return True` and `return False` leave
\* before save_orders_to_db and get_orders_without_final_url; only a CSV
\* text goes on to them
GoesOnToLedger(parsed) == parsed = "rows"

\* a faulty test that hands every result of the resolver to the update
GotUrl_Always(final_url) == TRUE

\* `if final_url:` after follow_all_redirects
GotUrl(final_url) == final_url # NoUrl /\ final_url # ""

\* a run that has done nothing yet. login_ret: what login returned;
\* export_sent: the export request went out; ledger_written: save_orders_to_db
\* or update_order_final_url was called; sessions, quits: browser sessions
\* started and ended; listed: the order numbers of orders_to_process that
\* have a sub-id; export: the response to the export request, without its
\* rows; calls: follow_all_redirects calls per order number; got_url: the
\* order numbers a call returned a URL for; ingest: the CSV lines just
\* handed to save_orders_to_db, until the next step; navigations: how often
\* login opened the portal; form: what became of the login form ("timeout":
\* no email input within the wait); typed, submitted: credentials were
\* entered, the form was sent; settles: wait_for_network_idle calls;
\* extractions: extract_auth_headers calls; exhausted: without a manual
\* token, no strategy found a value; cache_before: the cache file when run
\* began; open_before: the order numbers without final_url when run began;
\* queried: get_orders_without_final_url was called; trail: the order
\* numbers follow_all_redirects was called for, in the order of the calls;
\* updates: the update_order_final_url calls, each with its order number,
\* its URL, the final_url the record had and what the resolver had returned;
\* reused: a method was called on the scraper after run had returned; stale:
\* driver.get was called on a session that had been quit
NoIngest == [lines |-> << >>, before |-> {}, saved |-> FALSE, imported |-> FALSE]
NoHistory ==
    [login_ret |-> "none", export_sent |-> FALSE, export |-> NoExport,
     ledger_written |-> FALSE, sessions |-> 0, quits |-> 0, listed |-> {},
     calls |-> [o \in {"A100", "A200"} |-> 0], got_url |-> {}, ingest |-> NoIngest,
     navigations |-> 0, form |-> "none", typed |-> FALSE, submitted |-> FALSE,
     settles |-> 0, extractions |-> 0, exhausted |-> FALSE, cache_before |-> Missing,
     open_before |-> {}, queried |-> FALSE, trail |-> << >>, updates |-> << >>,
     reused |-> FALSE, stale |-> FALSE]

\* the scraper object outside run: nothing assigned yet
NotRunning ==
    /\ pc = "idle"
    /\ runs = 0
    /\ manual_auth_token = ""
    /\ cached_headers = None
    /\ headers = Unset
    /\ driver = "None"
    /\ probe = NoResponse
    /\ run_ret = "running"
    /\ todo = << >>
    /\ attempt = 0
    /\ hist = NoHistory
    /\ resolver = [op |-> "idle"]
    /\ extraction = [op |-> "idle"]
    /\ idle = [op |-> "idle"]

----------------------------------------------------------------------------
(* Ledger operations as called by any caller *)

\* save_orders_to_db(orders_collection, columns): the whole batch runs in one
\* transaction (one commit after the loop). failAt: the statement at which
\* the database raises (locked, disk full), 0 for none. On any exception
\* nothing is committed, the connection is dropped and the call returns
\* False. again: the caller repeats its previous, successful call with the
\* same batch
save_orders_to_db(batch, failAt) ==
    LET done == SaveOrdersToDbAt(orders, batch, failAt, now + 1)
    IN  /\ now < MaxClock
        /\ failAt <= Len(batch) + 1
        /\ now' = now + 1
        /\ orders' = done.table
        /\ last_op' = [op |-> "save", batch |-> batch, dbError |-> failAt # 0,
                       failAt |-> failAt, ret |-> done.ret,
                       again |-> (/\ last_op.op = "save"
                                  /\ last_op.ret
                                  /\ last_op.batch = batch)]
        /\ UNCHANGED <<cacheVars, runVars>>

\* update_order_final_url(order_no, final_url)
update_order_final_url(order_no, final_url, dbError) ==
    /\ now < MaxClock
    /\ now' = now + 1
    /\ orders' = IF dbError THEN orders ELSE SetFinalUrl(orders, order_no, final_url, now')
    /\ last_op' = [op |-> "update", order_no |-> order_no, final_url |-> final_url,
                   ret |-> ~dbError]
    /\ UNCHANGED <<cacheVars, runVars>>

\* get_orders_without_final_url(): a database error yields the empty list
get_orders_without_final_url(dbError) ==
    /\ now < MaxClock
    /\ now' = now + 1
    /\ orders' = orders
    /\ last_op' = [op |-> "query",
                   ret |-> IF dbError THEN << >> ELSE SelectWithoutFinalUrl(orders)]
    /\ UNCHANGED <<cacheVars, runVars>>

\* init_database(): CREATE TABLE IF NOT EXISTS orders
InitLedger ==
    /\ orders = {}
    /\ now = 0
    /\ last_op = [op |-> "init"]
    /\ headers_file = Missing
    /\ writer = [active |-> FALSE]
    /\ cache_op = [op |-> "init"]
    /\ NotRunning

NextLedger ==
    \/ \E batch \in Batches, failAt \in 0..(MaxBatch + 1) : save_orders_to_db(batch, failAt)
    \/ \E i \in 2..Len(OrderNoValues), u \in Urls, dbError \in BOOLEAN :
          update_order_final_url(OrderNoValues[i], u, dbError)
    \/ \E dbError \in BOOLEAN : get_orders_without_final_url(dbError)

SpecLedger == InitLedger /\ [][NextLedger]_vars

----------------------------------------------------------------------------
(* Credential-cache operations as called by any caller, with process crashes *)

\* save_headers_to_cache(headers) up to open(self.headers_file, 'w'): the
\* file is truncated and the text to dump is fixed. openError: open raises
\* and the method returns False with the file untouched.
\* before: the header set the file stored when the call began (kept for the
\* properties)
save_headers_to_cache_open(hdrs, openError) ==
    /\ ~writer.active
    /\ IF openError
         THEN /\ cache_op' = [op |-> "save", ret |-> FALSE]
              /\ UNCHANGED <<headers_file, writer>>
         ELSE /\ headers_file' = FileOf(<< >>)
              /\ writer' = [active |-> TRUE,
                            pending |-> JsonDump(IsoFormat(now), hdrs),
                            headers |-> hdrs,
                            before |-> StoredHeaders(headers_file)]
              /\ UNCHANGED cache_op
    /\ UNCHANGED <<now, ledgerVars, runVars>>

\* json.dump writes the next piece of the text to the file
save_headers_to_cache_write ==
    /\ writer.active
    /\ writer.pending # << >>
    /\ headers_file' = FileOf(headers_file.text \o <<Head(writer.pending)>>)
    /\ writer' = [writer EXCEPT !.pending = Tail(@)]
    /\ UNCHANGED <<cache_op, now, ledgerVars, runVars>>

\* the with block closes the file and the method returns True
save_headers_to_cache_return ==
    /\ writer.active
    /\ writer.pending = << >>
    /\ writer' = [active |-> FALSE]
    /\ cache_op' = [op |-> "save", ret |-> TRUE]
    /\ UNCHANGED <<headers_file, now, ledgerVars, runVars>>

\* the process dies during save_headers_to_cache; the file keeps what was
\* written so far
Crash ==
    /\ writer.active
    /\ writer' = [active |-> FALSE]
    /\ cache_op' = [op |-> "crash", headers |-> writer.headers, before |-> writer.before]
    /\ UNCHANGED <<headers_file, now, ledgerVars, runVars>>

\* load_cached_headers() by a process that is not writing the file.
\* after_crash: the last save_headers_to_cache before this call was cut short
load_cached_headers ==
    /\ ~writer.active
    /\ LET r == LoadCachedHeaders(headers_file, now)
       IN  cache_op' = [op |-> "load", raised |-> r.raised, value |-> r.value,
                        after_crash |-> cache_op.op = "crash",
                        headers |-> IF cache_op.op = "crash" THEN cache_op.headers ELSE EmptyDict,
                        before |-> IF cache_op.op = "crash" THEN cache_op.before ELSE None]
    /\ UNCHANGED <<headers_file, writer, now, ledgerVars, runVars>>

\* time passes between calls
Tick(hours) ==
    /\ ~writer.active
    /\ now + hours <= MaxHours
    /\ now' = now + hours
    /\ UNCHANGED <<cacheVars, ledgerVars, runVars>>

InitCache ==
    /\ orders = {}
    /\ last_op = [op |-> "init"]
    /\ now = 0
    /\ headers_file \in {Missing} \cup DamagedFiles
    /\ writer = [active |-> FALSE]
    /\ cache_op = [op |-> "init"]
    /\ NotRunning

NextCache ==
    \/ \E h \in LoginHeaderSets, openError \in BOOLEAN : save_headers_to_cache_open(h, openError)
    \/ save_headers_to_cache_write
    \/ save_headers_to_cache_return
    \/ Crash
    \/ load_cached_headers
    \/ \E hours \in {1, 23} : Tick(hours)

SpecCache == InitCache /\ [][NextCache]_vars

----------------------------------------------------------------------------
(* follow_all_redirects as called by any caller on a scraper just built *)

\* follow_all_redirects(url, order_id, max_redirects)
follow_all_redirects(web, url, max_redirects, setup) ==
    /\ resolver.op = "idle"
    /\ NeedsDriver(driver) \/ setup = "ok"
    /\ LET r == FollowAllRedirects(web, url, max_redirects, driver, setup)
       IN  /\ resolver' = [op |-> "call", web |-> web, url |-> url,
                           max_redirects |-> max_redirects, result |-> r.result]
           /\ driver' = r.driver
           /\ hist' = [hist EXCEPT !.sessions = IF r.started THEN @ + 1 ELSE @]
    /\ UNCHANGED <<now, ledgerVars, cacheVars, pc, runs, manual_auth_token, cached_headers,
                   headers, probe, run_ret, todo, attempt, callVars>>

\* the scraper after __init__, or after a login that started the session
InitResolver ==
    /\ orders = {}
    /\ last_op = [op |-> "init"]
    /\ now = 0
    /\ headers_file = Missing
    /\ writer = [active |-> FALSE]
    /\ cache_op = [op |-> "init"]
    /\ pc = "idle"
    /\ runs = 0
    /\ manual_auth_token = ""
    /\ cached_headers = None
    /\ headers = Unset
    /\ driver \in {"None", "live"}
    /\ probe = NoResponse
    /\ run_ret = "running"
    /\ todo = << >>
    /\ attempt = 0
    /\ hist = [NoHistory EXCEPT !.sessions = IF driver = "live" THEN 1 ELSE 0]
    /\ resolver = [op |-> "idle"]
    /\ extraction = [op |-> "idle"]
    /\ idle = [op |-> "idle"]

NextResolver ==
    /\ resolver.op = "idle"
    /\ \E i \in 1..Len(Budgets), web \in Webs, setup \in SetupOutcomes :
          follow_all_redirects(web, Seed, Budgets[i], setup)

SpecResolver == InitResolver /\ [][NextResolver]_vars

----------------------------------------------------------------------------
(* wait_for_network_idle, one call: src/main.py 285-329. Time is counted   *)
(* in half seconds from start_time                                         *)

\* idle_time=2 seconds
IdleTime == 4
\* time.sleep(0.5) at the end of a pass
PassSleep == 1
\* time.sleep(1) after a check that raised
FailedCheckSleep == 2
\* time.sleep(3) in the outer handler
FallbackSleep == 6

\* `while time.time() - start_time < timeout:`
StillWaiting(elapsed, timeout) == elapsed < timeout

\* a faulty test that takes the first loaded state for idle
IdleReached_AtOnce(current_time, last_activity_time) == TRUE

\* `if current_time - last_activity_time >= idle_time:`
IdleReached(current_time, last_activity_time) == current_time - last_activity_time >= IdleTime

\* the call has returned True at time t
Returned(call, reason, t) == [call EXCEPT !.op = "returned", !.ret = TRUE, !.reason = reason, !.t = t]

\* wait_for_network_idle(timeout): start_time and last_activity_time are
\* read; raises: reading the timeout fails, the outer handler sleeps and
\* returns True
wait_for_network_idle(timeout, raises) ==
    /\ idle.op = "idle"
    /\ LET call == [op |-> "waiting", timeout |-> timeout, t |-> 0, last_activity_time |-> 0,
                    ret |-> FALSE, reason |-> "none", polls |-> 0, loading_seen |-> {},
                    last_seen |-> [ready_state |-> "none", at |-> 0]]
       IN  idle' = IF raises THEN Returned(call, "fallback", FallbackSleep) ELSE call
    /\ UNCHANGED <<now, ledgerVars, cacheVars, pc, runs, manual_auth_token, cached_headers,
                   headers, driver, probe, run_ret, todo, attempt, hist, resolver, extraction>>

\* one test of the while condition and, when it holds, one pass of the loop.
\* ready_state: what document.readyState yields ("raises": a script call
\* fails); took: the time the script calls take
WaitPass(ready_state, took) ==
    /\ idle.op = "waiting"
    /\ IF ~StillWaiting(idle.t, idle.timeout)
         THEN /\ ready_state = "loading" /\ took = 0
              /\ idle' = Returned(idle, "timeout", idle.t)
         ELSE LET current_time == idle.t + took
                  seen == [idle EXCEPT !.polls = @ + 1,
                                       !.last_seen = [ready_state |-> ready_state,
                                                      at |-> current_time],
                                       !.loading_seen =
                                           IF ready_state = "loading"
                                             THEN @ \cup {current_time} ELSE @]
              IN  IF ready_state = "raises"
                    THEN idle' = Returned(seen, "unreadable", current_time + FailedCheckSleep)
                  ELSE IF ready_state = "complete"
                    THEN IF IdleReached(current_time, idle.last_activity_time)
                           THEN idle' = Returned(seen, "idle", current_time)
                           ELSE idle' = [seen EXCEPT !.t = current_time + PassSleep]
                  ELSE idle' = [seen EXCEPT !.last_activity_time = current_time,
                                            !.t = current_time + PassSleep]
    /\ UNCHANGED <<now, ledgerVars, cacheVars, pc, runs, manual_auth_token, cached_headers,
                   headers, driver, probe, run_ret, todo, attempt, hist, resolver, extraction>>

\* the scraper inside login, the portal opened
InitIdle ==
    /\ orders = {}
    /\ last_op = [op |-> "init"]
    /\ now = 0
    /\ headers_file = Missing
    /\ writer = [active |-> FALSE]
    /\ cache_op = [op |-> "init"]
    /\ pc = "settle"
    /\ runs = 1
    /\ manual_auth_token = ""
    /\ cached_headers = None
    /\ headers = Unset
    /\ driver = "live"
    /\ probe = NoResponse
    /\ run_ret = "running"
    /\ todo = << >>
    /\ attempt = 0
    /\ hist = [NoHistory EXCEPT !.sessions = 1, !.navigations = 1]
    /\ resolver = [op |-> "idle"]
    /\ extraction = [op |-> "idle"]
    /\ idle = [op |-> "idle"]

NextIdle ==
    \/ \E timeout \in 0..MaxIdleTimeout, raises \in BOOLEAN : wait_for_network_idle(timeout, raises)
    \/ \E ready_state \in {"complete", "loading", "raises"}, took \in {0, 1} :
          WaitPass(ready_state, took)

\* the call goes on as long as it can: time.sleep and the script calls return
SpecIdle == InitIdle /\ [][NextIdle]_vars /\ WF_vars(NextIdle)

----------------------------------------------------------------------------
(* extract_auth_headers called once on any page: src/main.py 569-602,      *)
(* 691-793                                                                 *)

\* extract_auth_headers(): token is what extract_auth_token returned,
\* strategies how many of its strategies ran (none when get_cookies raised)
extract_auth_headers(page, cookiesRaise) ==
    /\ extraction.op = "idle"
    /\ LET r == ExtractAuthHeaders(page, cookiesRaise, manual_auth_token, headers)
       IN  /\ extraction' = [op |-> "call", page |-> page, cookiesRaise |-> cookiesRaise,
                             token |-> IF cookiesRaise THEN "" ELSE ExtractAuthToken(page),
                             strategies |-> IF cookiesRaise THEN 0 ELSE StrategiesRun(page),
                             ok |-> r.ok]
           /\ headers' = r.headers
    /\ UNCHANGED <<now, ledgerVars, cacheVars, pc, runs, manual_auth_token, cached_headers,
                   driver, probe, run_ret, todo, attempt, hist, resolver, idle>>

\* the scraper inside login, the session started, with or without AUTH_TOKEN
InitExtract ==
    /\ orders = {}
    /\ last_op = [op |-> "init"]
    /\ now = 0
    /\ headers_file = Missing
    /\ writer = [active |-> FALSE]
    /\ cache_op = [op |-> "init"]
    /\ pc = "extract"
    /\ runs = 1
    /\ manual_auth_token \in {"", Placeholder, "tokB"}
    /\ cached_headers = None
    /\ headers = Unset
    /\ driver = "live"
    /\ probe = NoResponse
    /\ run_ret = "running"
    /\ todo = << >>
    /\ attempt = 0
    /\ hist = [NoHistory EXCEPT !.sessions = 1, !.navigations = 1]
    /\ resolver = [op |-> "idle"]
    /\ extraction = [op |-> "idle"]
    /\ idle = [op |-> "idle"]

NextExtract ==
    /\ extraction.op = "idle"
    /\ \E page \in Pages, cookiesRaise \in BOOLEAN : extract_auth_headers(page, cookiesRaise)

SpecExtract == InitExtract /\ [][NextExtract]_vars

----------------------------------------------------------------------------
(* DHGateScraper.run, one program start after the other: src/main.py       *)
(* 447-567, 795-1030                                                       *)

\* main(): a new process builds the scraper (__init__) and calls run, some
\* hours after the previous one ended. force_login: --force-login removes the
\* cache file before run
StartProgram(hours, manual, force_login) ==
    /\ pc \in {"idle", "done"}
    /\ runs < MaxRuns
    /\ now + hours <= MaxHours
    /\ now' = now + hours
    /\ runs' = runs + 1
    /\ manual_auth_token' = manual
    /\ headers_file' = IF force_login THEN Missing ELSE headers_file
    /\ pc' = "start"
    /\ cached_headers' = None
    /\ headers' = Unset
    /\ driver' = "None"
    /\ probe' = NoResponse
    /\ run_ret' = "running"
    /\ todo' = << >>
    /\ attempt' = 0
    /\ hist' = [NoHistory EXCEPT !.cache_before = headers_file',
                                 !.open_before = OpenOrders(orders)]
    /\ resolver' = [op |-> "idle"]
    /\ UNCHANGED <<ledgerVars, writer, cache_op, callVars>>

\* run: cached_headers = self.load_cached_headers() and the `if
\* cached_headers:` that follows; an exception out of it would end in run's
\* `except Exception`
RunLoadCachedHeaders ==
    /\ pc = "start"
    /\ LET r == LoadCachedHeaders(headers_file, now)
       IN  /\ cached_headers' = r.value
           /\ IF r.raised THEN pc' = "finally" /\ run_ret' = "False"
              ELSE /\ pc' = IF Truthy(r.value) THEN "probe" ELSE "login"
                   /\ UNCHANGED run_ret
    /\ UNCHANGED <<now, runs, manual_auth_token, headers, driver, probe, ledgerVars, cacheVars,
                   procVars>>

\* test_headers_validity: requests.post(test_url, headers=headers, ...)
\* returns the response or raises
RunProbeRequest(response) ==
    /\ pc = "probe"
    /\ probe' = response
    /\ pc' = "probed"
    /\ UNCHANGED <<now, runs, manual_auth_token, cached_headers, headers, driver, run_ret,
                   ledgerVars, cacheVars, procVars>>

\* test_headers_validity classifies the response, and run: `if
\* self.test_headers_validity(cached_headers): self.headers = cached_headers`
\* else login
RunTestHeadersValidity ==
    /\ pc = "probed"
    /\ LET valid == TestHeadersValidity(probe)
       IN  /\ headers' = IF valid THEN cached_headers ELSE headers
           /\ pc' = RunAfterProbe(valid)
    /\ UNCHANGED <<now, runs, manual_auth_token, cached_headers, driver, probe, run_ret,
                   ledgerVars, cacheVars, procVars>>

\* login returns ok to run: `if not self.login(): return False`. h: the
\* history of the run so far
LoginReturns(ok, h) ==
    /\ pc' = RunAfterLogin(ok)
    /\ run_ret' = IF RunAfterLogin(ok) = "finally" THEN "False" ELSE run_ret
    /\ hist' = [h EXCEPT !.login_ret = IF ok THEN "True" ELSE "False"]

\* the history after a setup_driver call; started: it started a session
Acquired(h, started) == [h EXCEPT !.sessions = IF started THEN @ + 1 ELSE @]

\* the history after driver.get calls on session drv; gets: how many
Navigated(h, drv, gets) == [h EXCEPT !.stale = @ \/ (drv = "quit" /\ gets > 0)]

\* login: `if not self.driver: if not self.setup_driver(): return False`
LoginSetupDriver(setup) ==
    /\ pc = "login"
    /\ NeedsDriver(driver) \/ setup = "ok"
    /\ IF NeedsDriver(driver)
         THEN LET s == SetupDriver(driver, setup)
              IN  /\ driver' = s.driver
                  /\ IF s.ok
                       THEN /\ pc' = "navigate"
                            /\ hist' = Acquired(hist, s.started)
                            /\ UNCHANGED run_ret
                       ELSE LoginReturns(FALSE, Acquired(hist, s.started))
         ELSE pc' = "navigate" /\ UNCHANGED <<driver, run_ret, hist>>
    /\ probe' = NoResponse
    /\ UNCHANGED <<now, runs, manual_auth_token, cached_headers, headers,
                   ledgerVars, cacheVars, todo, attempt, resolver, callVars>>

\* login: self.driver.get(login_url); an exception ends in `except
\* Exception: return False`
LoginNavigate(outcome) ==
    /\ pc = "navigate"
    /\ driver = "quit" => outcome = "raises"
    /\ LET opened == [Navigated(hist, driver, 1) EXCEPT !.navigations = @ + 1]
       IN  IF outcome = "raises" THEN LoginReturns(FALSE, opened)
           ELSE pc' = "form" /\ hist' = opened /\ UNCHANGED run_ret
    /\ UNCHANGED <<now, runs, manual_auth_token, cached_headers, headers, driver, probe,
                   ledgerVars, cacheVars, todo, attempt, resolver, callVars>>

\* login: the wait for the email input and what follows it. "timeout": no
\* email input within 10 seconds (TimeoutException); "no_password": the
\* email input is there, the password input is not (NoSuchElementException);
\* "submitted": the credentials were typed, the form sent, the body found
\* and wait_for_network_idle called; "body_timeout": typed and sent, then
\* the wait for the body ran out (TimeoutException)
LoginForm(outcome) ==
    /\ pc = "form"
    /\ LET seen == [hist EXCEPT !.form = outcome,
                                !.typed = outcome \in {"submitted", "body_timeout"},
                                !.submitted = outcome \in {"submitted", "body_timeout"},
                                !.settles = IF outcome = "submitted" THEN @ + 1 ELSE @]
       IN  IF LoginAfterForm(outcome) = "return" THEN LoginReturns(FALSE, seen)
           ELSE pc' = LoginAfterForm(outcome) /\ hist' = seen /\ UNCHANGED run_ret
    /\ UNCHANGED <<now, runs, manual_auth_token, cached_headers, headers, driver, probe,
                   ledgerVars, cacheVars, todo, attempt, resolver, callVars>>

\* login: self.wait_for_network_idle() before the extraction; it returns
\* True on every path and its result is not looked at
LoginWaitForNetworkIdle ==
    /\ pc = "settle"
    /\ hist' = [hist EXCEPT !.settles = @ + 1]
    /\ pc' = "extract"
    /\ UNCHANGED <<now, runs, manual_auth_token, cached_headers, headers, driver, probe,
                   run_ret, ledgerVars, cacheVars, todo, attempt, resolver, callVars>>

\* login: `if self.extract_auth_headers():` ... `else: return False`
LoginExtractAuthHeaders(page, cookiesRaise) ==
    /\ pc = "extract"
    /\ LET r == ExtractAuthHeaders(page, cookiesRaise, manual_auth_token, headers)
           tried == [hist EXCEPT !.extractions = @ + 1,
                                 !.exhausted = /\ ~cookiesRaise
                                               /\ manual_auth_token = ""
                                               /\ ~page.raises
                                               /\ StrategiesRun(page) = 4
                                               /\ page.script = ""]
       IN  /\ headers' = r.headers
           /\ IF LoginAfterExtract(r.ok) = "return" THEN LoginReturns(FALSE, tried)
              ELSE pc' = LoginAfterExtract(r.ok) /\ hist' = tried /\ UNCHANGED run_ret
    /\ UNCHANGED <<now, runs, manual_auth_token, cached_headers, driver, probe,
                   ledgerVars, cacheVars, todo, attempt, resolver, callVars>>

\* login: self.save_headers_to_cache(self.headers); return True. The result
\* of the save is not looked at. outcome "open_error": open raises and the
\* file stays; "write_error": the file was truncated and the buffered text
\* never reached it; "ok": the text is in the file
LoginSaveHeadersToCache(outcome) ==
    /\ pc = "save"
    /\ headers_file' =
          IF outcome = "open_error" THEN headers_file
          ELSE IF outcome = "write_error" THEN FileOf(<< >>)
          ELSE FileOf(JsonDump(IsoFormat(now), headers.dict))
    /\ LoginReturns(TRUE, hist)
    /\ UNCHANGED <<now, runs, manual_auth_token, cached_headers, headers, driver, probe,
                   ledgerVars, writer, cache_op, todo, attempt, resolver, callVars>>

\* run: self.import_existing_csv_data(); its result is not looked at
RunImportExistingCsv(found, dbError) ==
    /\ pc = "import"
    /\ LET r == ImportExistingCsv(orders, found, dbError, now)
       IN  /\ orders' = r.table
           /\ hist' = [hist EXCEPT !.ledger_written = @ \/ r.called]
    /\ pc' = "fetch"
    /\ UNCHANGED <<now, last_op, runs, manual_auth_token, cached_headers, headers, driver,
                   probe, run_ret, cacheVars, todo, attempt, resolver, callVars>>

\* the response without its data rows
WithoutRows(response) == [response EXCEPT !.payload.rows = << >>]

\* the order numbers of orders_to_process that pass `if order_id and subid:`
Listed(orders_to_process) ==
    { orders_to_process[i].order_no :
        i \in { j \in 1..Len(orders_to_process) : HasIdAndSubid(orders_to_process[j]) } }

\* run: `if not self.fetch_orders(): return False` ... `return True`, with
\* fetch_orders and process_orders_response up to the loop over
\* orders_to_process: the export request with self.headers, the parsing,
\* save_orders_to_db, import_existing_csv_data and
\* get_orders_without_final_url. saveError, queryError: the database raises
\* in that call; found: what import_existing_csv_data finds
RunFetchOrders(response, saveError, found, queryError) ==
    /\ pc = "fetch"
    /\ probe' = NoResponse
    /\ IF headers = Unset
         THEN \* `if not hasattr(self, 'headers'): return False`
              /\ ~saveError /\ ~queryError /\ found = << >>
              /\ pc' = "finally"
              /\ run_ret' = "False"
              /\ UNCHANGED <<orders, todo, hist>>
         ELSE LET sent == [hist EXCEPT !.export_sent = TRUE, !.export = WithoutRows(response)]
                  parsed == IF response.raised \/ response.status_code # 200 THEN "False"
                            ELSE ParseExport(response.payload)
              IN  IF GoesOnToLedger(parsed)
                    THEN LET orders_collection == SortDesc(OrdersCollection(response.payload.rows))
                             saved == SaveOrdersToDb(orders, orders_collection, saveError, now)
                             imported == ImportExistingCsv(saved.table, found, FALSE, now)
                             orders_to_process ==
                                 IF queryError THEN << >>
                                 ELSE SelectWithoutFinalUrl(imported.table)
                         IN  /\ orders' = imported.table
                             /\ todo' = orders_to_process
                             /\ hist' = [sent EXCEPT !.ledger_written = TRUE,
                                                     !.queried = TRUE,
                                                     !.listed = Listed(orders_to_process),
                                                     !.ingest = [lines |-> response.payload.rows,
                                                                 before |-> orders,
                                                                 saved |-> saved.ret,
                                                                 imported |-> imported.called]]
                             /\ pc' = "resolve"
                             /\ UNCHANGED run_ret
                    ELSE /\ ~saveError /\ ~queryError /\ found = << >>
                         /\ hist' = sent
                         /\ pc' = "finally"
                         /\ run_ret' = parsed
                         /\ UNCHANGED <<orders, todo>>
    /\ UNCHANGED <<now, last_op, runs, manual_auth_token, cached_headers, headers, driver,
                   cacheVars, attempt, resolver, callVars>>

\* process_orders_response: an order of orders_to_process without order
\* number or sub-id is skipped
RunSkipOrder ==
    /\ pc = "resolve"
    /\ todo # << >>
    /\ ~HasIdAndSubid(Head(todo))
    /\ todo' = NextOrders(todo)
    /\ hist' = [hist EXCEPT !.ingest = NoIngest]
    /\ UNCHANGED <<now, ledgerVars, cacheVars, pc, runs, manual_auth_token, cached_headers,
                   headers, driver, probe, run_ret, attempt, resolver, callVars>>

\* process_orders_response: one pass of `for attempt in range(max_retries)`
\* for the order at the head: follow_all_redirects(download_url, order_id,
\* max_redirects=2); with a URL, update_order_final_url and break; without,
\* the next attempt or, after the last one, the next order. Neither call
\* lets an exception out, so the `except` of the pass is never entered.
\* web, setup: what the browser meets; dbError: the UPDATE fails
RunResolveAttempt(web, setup, dbError) ==
    /\ pc = "resolve"
    /\ todo # << >>
    /\ HasIdAndSubid(Head(todo))
    /\ NeedsDriver(driver) \/ setup = "ok"
    /\ LET order_id == Head(todo).order_no
           r == FollowAllRedirects(web, Seed, CallMaxRedirects, driver, setup)
           final_url == r.result.ret
           called == [Navigated(Acquired(hist, r.started), driver, Len(r.result.navigated))
                        EXCEPT !.calls[order_id] = @ + 1,
                                                       !.trail = Append(@, order_id),
                                                       !.ingest = NoIngest]
       IN  /\ driver' = r.driver
           /\ IF GotUrl(final_url)
                THEN /\ orders' = IF dbError THEN orders
                                  ELSE SetFinalUrl(orders, order_id, final_url, now)
                     /\ hist' = [called EXCEPT !.got_url = @ \cup {order_id},
                                               !.ledger_written = TRUE,
                                               !.updates =
                                                   Append(@, [order_no |-> order_id,
                                                              final_url |-> final_url,
                                                              had |-> FinalUrlOf(orders, order_id),
                                                              returned |-> r.result.ret])]
                     /\ todo' = NextOrders(todo)
                     /\ attempt' = 0
                ELSE /\ ~dbError
                     /\ hist' = called
                     /\ UNCHANGED orders
                     /\ IF AttemptAgain(attempt)
                          THEN attempt' = attempt + 1 /\ UNCHANGED todo
                          ELSE attempt' = 0 /\ todo' = NextOrders(todo)
    /\ UNCHANGED <<now, last_op, cacheVars, pc, runs, manual_auth_token, cached_headers,
                   headers, probe, run_ret, resolver, callVars>>

\* process_orders_response: `return True` after the loop; fetch_orders and
\* run hand it on
RunProcessReturn ==
    /\ pc = "resolve"
    /\ todo = << >>
    /\ run_ret' = IF LoopReturn(hist.listed, hist.got_url) THEN "True" ELSE "False"
    /\ pc' = "finally"
    /\ hist' = [hist EXCEPT !.ingest = NoIngest]
    /\ UNCHANGED <<now, ledgerVars, cacheVars, runs, manual_auth_token, cached_headers,
                   headers, driver, probe, todo, attempt, resolver, callVars>>

\* run: `finally: if self.driver: self.driver.quit()`; quit of an
\* undetected-chromedriver session lets no exception out
RunFinally ==
    /\ pc = "finally"
    /\ driver' = IF driver # "None" THEN "quit" ELSE driver
    /\ hist' = [hist EXCEPT !.quits = IF driver # "None" THEN @ + 1 ELSE @]
    /\ pc' = "done"
    /\ UNCHANGED <<now, ledgerVars, cacheVars, runs, manual_auth_token, cached_headers,
                   headers, probe, run_ret, todo, attempt, resolver, callVars>>

\* the first start of the program: no ledger rows, and a cache file that is
\* missing or damaged
Init ==
    /\ orders = {}
    /\ last_op = [op |-> "init"]
    /\ now = 0
    /\ headers_file \in {Missing} \cup DamagedFiles
    /\ writer = [active |-> FALSE]
    /\ cache_op = [op |-> "init"]
    /\ NotRunning

\* hours between two starts of the program; the first start is at hour 0
StartHours(n) == IF n = 0 THEN {0} ELSE {1, 23, 24, 25}

\* the exports and the webs met while the credentials are explored: no
\* answer, no data, one order with or without sub-id, and a link that
\* resolves or fails to load
OneOrder ==
    { CsvLines(<<ColOrderNo, ColSaleAmount, ColCustomize1>>,
               <<[order_no |-> "A100", sale_amount_usd |-> "12.50", customize1_id |-> "sub1"]>>),
      CsvLines(<<ColOrderNo, ColSaleAmount>>,
               <<[order_no |-> "A100", sale_amount_usd |-> "7.00", customize1_id |-> ""]>>) }
FewExportResponses ==
    { r \in ExportResponses :
        \/ r.raised
        \/ r.payload = Payload("json", TRUE, 0, "null", Msg(<<"Success">>), << >>)
        \/ \E t \in OneOrder : r.payload = Payload("json", TRUE, 0, "csv", Msg(<<"Success">>), t) }
FewWebs ==
    { w \in RunWebs :
        \/ w[Seed].raises
        \/ (w[Seed].landed = "http://shop/a" /\ w["http://shop/a"].landed = "http://shop/a") }

\* every credential path of run, over two starts, with few exports
Next ==
    \/ \E hours \in StartHours(runs), manual \in {"", Placeholder, "tokB"},
          force_login \in BOOLEAN :
          StartProgram(hours, manual, force_login)
    \/ RunLoadCachedHeaders
    \/ \E response \in Responses : RunProbeRequest(response)
    \/ RunTestHeadersValidity
    \/ \E setup \in SetupOutcomes : LoginSetupDriver(setup)
    \/ \E outcome \in {"raises", "ok"} : LoginNavigate(outcome)
    \/ \E outcome \in FormOutcomes : LoginForm(outcome)
    \/ LoginWaitForNetworkIdle
    \/ \E page \in Pages, cookiesRaise \in BOOLEAN : LoginExtractAuthHeaders(page, cookiesRaise)
    \/ \E outcome \in {"open_error", "write_error", "ok"} : LoginSaveHeadersToCache(outcome)
    \/ RunImportExistingCsv(<< >>, FALSE)
    \/ \E response \in FewExportResponses : RunFetchOrders(response, FALSE, << >>, FALSE)
    \/ RunSkipOrder
    \/ \E web \in FewWebs : RunResolveAttempt(web, "ok", FALSE)
    \/ RunProcessReturn
    \/ RunFinally

Spec == Init /\ [][Next]_vars

----------------------------------------------------------------------------
(* One run in full: every export, every web, every database failure, after *)
(* an earlier run                                                          *)

\* the header set an earlier login stored
EarlierHeaders == AssembleHeaders("sid=1", "tokA")

\* the ledger an earlier run left: empty, or one order resolved and one not
EarlierOrders ==
    { {},
      { [order_no |-> "A100", sale_amount_usd |-> "12.50", customize1_id |-> "sub1",
         final_url |-> NULL, created_at |-> 0, updated_at |-> 0],
        [order_no |-> "A200", sale_amount_usd |-> "12.50", customize1_id |-> "sub1",
         final_url |-> "http://shop/a", created_at |-> 0, updated_at |-> 0] } }

\* the program has ended its last run but one
InitRun ==
    /\ orders \in EarlierOrders
    /\ last_op = [op |-> "init"]
    /\ now = 0
    /\ headers_file \in {Missing, FileOf(JsonDump(IsoFormat(0), EarlierHeaders))}
    /\ writer = [active |-> FALSE]
    /\ cache_op = [op |-> "init"]
    /\ pc = "done"
    /\ runs = MaxRuns - 1
    /\ manual_auth_token = ""
    /\ cached_headers = None
    /\ headers = Unset
    /\ driver = "None"
    /\ probe = NoResponse
    /\ run_ret = "True"
    /\ todo = << >>
    /\ attempt = 0
    /\ hist = [NoHistory EXCEPT !.cache_before = headers_file,
                                !.open_before = OpenOrders(orders)]
    /\ resolver = [op |-> "idle"]
    /\ extraction = [op |-> "idle"]
    /\ idle = [op |-> "idle"]

\* the pages of the run: the token is in the storage, or nowhere
FewPages ==
    { page \in Pages :
        /\ ~page.raises
        /\ page.storage \in {"", "tokA"}
        /\ page.globals = "" /\ page.meta = "" /\ page.script = "" }

NextRun ==
    \/ StartProgram(1, "", FALSE)
    \/ RunLoadCachedHeaders
    \/ \E response \in Responses : RunProbeRequest(response)
    \/ RunTestHeadersValidity
    \/ \E setup \in SetupOutcomes : LoginSetupDriver(setup)
    \/ \E outcome \in {"raises", "ok"} : LoginNavigate(outcome)
    \/ \E outcome \in FormOutcomes : LoginForm(outcome)
    \/ LoginWaitForNetworkIdle
    \/ \E page \in FewPages, cookiesRaise \in BOOLEAN : LoginExtractAuthHeaders(page, cookiesRaise)
    \/ \E outcome \in {"open_error", "ok"} : LoginSaveHeadersToCache(outcome)
    \/ \E found \in ImportFinds, dbError \in BOOLEAN : RunImportExistingCsv(found, dbError)
    \/ \E response \in ExportResponses, saveError \in BOOLEAN, found \in ImportFinds,
          queryError \in BOOLEAN :
          RunFetchOrders(response, saveError, found, queryError)
    \/ RunSkipOrder
    \/ \E web \in RunWebs, setup \in SetupOutcomes, dbError \in BOOLEAN :
          RunResolveAttempt(web, setup, dbError)
    \/ RunProcessReturn
    \/ RunFinally

SpecRun == InitRun /\ [][NextRun]_vars

----------------------------------------------------------------------------
(* One scraper used again after run has returned: run once more, or        *)
(* follow_all_redirects called from outside                                *)

\* run() called again on the scraper: self.driver, self.headers and the
\* other attributes are as the first run left them
RunAgain ==
    /\ pc = "done"
    /\ ~hist.reused
    /\ pc' = "start"
    /\ run_ret' = "running"
    /\ hist' = [hist EXCEPT !.reused = TRUE]
    /\ UNCHANGED <<now, ledgerVars, cacheVars, runs, manual_auth_token, cached_headers,
                   headers, driver, probe, todo, attempt, resolver, callVars>>

\* follow_all_redirects(url, order_id) called on the scraper after run
LaterFollowAllRedirects(web, setup) ==
    /\ pc = "done"
    /\ ~hist.reused
    /\ NeedsDriver(driver) \/ setup = "ok"
    /\ LET r == FollowAllRedirects(web, Seed, DefaultMaxRedirects, driver, setup)
       IN  /\ resolver' = [op |-> "call", web |-> web, url |-> Seed,
                           max_redirects |-> DefaultMaxRedirects, result |-> r.result]
           /\ driver' = r.driver
           /\ hist' = [Navigated(Acquired(hist, r.started), driver, Len(r.result.navigated))
                         EXCEPT !.reused = TRUE]
    /\ UNCHANGED <<now, ledgerVars, cacheVars, pc, runs, manual_auth_token, cached_headers,
                   headers, probe, run_ret, todo, attempt, callVars>>

\* the program is about to build its scraper; an earlier run left a ledger
\* and maybe a cache file
InitReuse ==
    /\ orders \in EarlierOrders
    /\ last_op = [op |-> "init"]
    /\ now = 0
    /\ headers_file \in {Missing, FileOf(JsonDump(IsoFormat(0), EarlierHeaders))}
    /\ writer = [active |-> FALSE]
    /\ cache_op = [op |-> "init"]
    /\ pc = "idle"
    /\ runs = MaxRuns - 1
    /\ manual_auth_token = ""
    /\ cached_headers = None
    /\ headers = Unset
    /\ driver = "None"
    /\ probe = NoResponse
    /\ run_ret = "running"
    /\ todo = << >>
    /\ attempt = 0
    /\ hist = NoHistory
    /\ resolver = [op |-> "idle"]
    /\ extraction = [op |-> "idle"]
    /\ idle = [op |-> "idle"]

NextReuse ==
    \/ StartProgram(1, "", FALSE)
    \/ RunLoadCachedHeaders
    \/ \E response \in Responses : RunProbeRequest(response)
    \/ RunTestHeadersValidity
    \/ \E setup \in SetupOutcomes : LoginSetupDriver(setup)
    \/ \E outcome \in {"raises", "ok"} : LoginNavigate(outcome)
    \/ \E outcome \in FormOutcomes : LoginForm(outcome)
    \/ LoginWaitForNetworkIdle
    \/ \E page \in FewPages, cookiesRaise \in BOOLEAN : LoginExtractAuthHeaders(page, cookiesRaise)
    \/ \E outcome \in {"open_error", "ok"} : LoginSaveHeadersToCache(outcome)
    \/ RunImportExistingCsv(<< >>, FALSE)
    \/ \E response \in FewExportResponses : RunFetchOrders(response, FALSE, << >>, FALSE)
    \/ RunSkipOrder
    \/ \E web \in FewWebs, setup \in SetupOutcomes : RunResolveAttempt(web, setup, FALSE)
    \/ RunProcessReturn
    \/ RunFinally
    \/ RunAgain
    \/ \E web \in FewWebs, setup \in SetupOutcomes : LaterFollowAllRedirects(web, setup)

SpecReuse == InitReuse /\ [][NextReuse]_vars

----------------------------------------------------------------------------
(* follow_all_redirects pass by pass, called several times on one scraper, *)
(* with a browser that decides at each navigation what it shows:           *)
(* src/main.py 605-689                                                     *)

\* a faulty start that goes on with the visited set of the call before
FreshVisited_Kept(earlier) == earlier

\* `visited_urls = set()`, whatever earlier calls visited
FreshVisited(earlier) == {}

\* the URLs of a sequence
Range(urls) == { urls[i] : i \in 1..Len(urls) }

\* the call has returned: `return None` or `return final_url`
FollowReturns(call, outcome, ret) ==
    [call EXCEPT !.op = "returned",
                 !.result = Resolved(outcome, ret, call.navigated, call.redirect_count,
                                     call.current_url)]

\* follow_all_redirects(url, order_id, max_redirects) up to the while loop:
\* the session check, current_url, redirect_count and visited_urls. earlier:
\* the URLs the calls before handed to driver.get
FollowStart(url, max_redirects, setup) ==
    /\ resolver.op \in {"idle", "returned"}
    /\ resolver.calls < MaxCalls
    /\ NeedsDriver(driver) \/ setup = "ok"
    /\ LET s == IF NeedsDriver(driver) THEN SetupDriver(driver, setup)
                ELSE [ok |-> TRUE, driver |-> driver, started |-> FALSE]
           earlier == resolver.earlier \cup Range(resolver.navigated)
           call == [op |-> "loop", calls |-> resolver.calls + 1, earlier |-> earlier,
                    url |-> url, max_redirects |-> max_redirects, current_url |-> url,
                    redirect_count |-> 0, visited_urls |-> FreshVisited(earlier),
                    navigated |-> << >>, met |-> << >>,
                    result |-> Resolved("none", NoUrl, << >>, 0, url)]
       IN  /\ driver' = s.driver
           /\ hist' = Acquired(hist, s.started)
           /\ resolver' = IF s.ok THEN call ELSE FollowReturns(call, "no_driver", NoUrl)
    /\ UNCHANGED <<now, ledgerVars, cacheVars, pc, runs, manual_auth_token, cached_headers,
                   headers, probe, run_ret, todo, attempt, callVars>>

\* one test of the while condition and, when it holds, one pass of the loop.
\* page: what the browser shows for current_url in this pass; met: the pages
\* shown so far
FollowPass(page) ==
    /\ resolver.op = "loop"
    /\ LET current_url == resolver.current_url
           redirect_count == resolver.redirect_count
           got == [resolver EXCEPT !.visited_urls = @ \cup {current_url},
                                   !.navigated = Append(@, current_url),
                                   !.met = Append(@, page)]
           Continue(new_url) == [got EXCEPT !.current_url = new_url,
                                            !.redirect_count = @ + 1]
       IN  IF ~WithinBudget(redirect_count, resolver.max_redirects)
             THEN /\ page = Page(FALSE, current_url, {}, current_url, current_url)
                  /\ resolver' = FollowReturns(resolver, "max_redirects", NoUrl)
           ELSE IF AlreadyVisited(current_url, resolver.visited_urls)
             THEN /\ page = Page(FALSE, current_url, {}, current_url, current_url)
                  /\ resolver' = FollowReturns(resolver, "circular", NoUrl)
           ELSE IF page.raises
             THEN resolver' = FollowReturns(got, "error", NoUrl)
           ELSE IF page.landed # current_url
             THEN resolver' = Continue(page.landed)
           ELSE IF SendsBack(page.content)
             THEN resolver' = FollowReturns(got, "invalid", NoUrl)
           ELSE IF LooksLikeRedirect(page.content) /\ page.after_wait # current_url
             THEN resolver' = Continue(page.after_wait)
           ELSE IF /\ "redirecting" \in page.content
                   /\ redirect_count < resolver.max_redirects
                   /\ page.after_long_wait # current_url
             THEN resolver' = Continue(page.after_long_wait)
           ELSE resolver' = FollowReturns(got, "final", page.landed)
    /\ UNCHANGED <<now, ledgerVars, cacheVars, pc, runs, manual_auth_token, cached_headers,
                   headers, driver, probe, run_ret, todo, attempt, hist, callVars>>

\* a scraper with a ledger and a cache file, before any call
InitFollow ==
    /\ orders \in EarlierOrders \ {{}}
    /\ last_op = [op |-> "init"]
    /\ now = 0
    /\ headers_file = FileOf(JsonDump(IsoFormat(0), EarlierHeaders))
    /\ writer = [active |-> FALSE]
    /\ cache_op = [op |-> "init"]
    /\ pc = "resolve"
    /\ runs = 1
    /\ manual_auth_token = ""
    /\ cached_headers = None
    /\ headers = Unset
    /\ driver \in {"None", "live"}
    /\ probe = NoResponse
    /\ run_ret = "running"
    /\ todo = << >>
    /\ attempt = 0
    /\ hist = [NoHistory EXCEPT !.sessions = IF driver = "live" THEN 1 ELSE 0]
    /\ resolver = [op |-> "idle", calls |-> 0, earlier |-> {}, navigated |-> << >>]
    /\ extraction = [op |-> "idle"]
    /\ idle = [op |-> "idle"]

\* the browser shows one of the pages of current_url
AnyPass ==
    /\ resolver.op = "loop"
    /\ \E page \in WebPages(resolver.current_url) : FollowPass(page)

NextFollow ==
    \/ \E i \in 1..Len(Budgets), setup \in SetupOutcomes : FollowStart(Seed, Budgets[i], setup)
    \/ AnyPass

\* a call that has started goes on: driver.get, the sleeps and
\* wait_for_network_idle return or raise
SpecFollow == InitFollow /\ [][NextFollow]_vars /\ WF_vars(AnyPass)

----------------------------------------------------------------------------
(* Properties of the order ledger, checked under SpecLedger *)

\* the record of table with this order number
RecordOf(table, order_no) == CHOOSE r \in table : r.order_no = order_no

\* the last row of batch with this order number
LastRowOf(batch, order_no) ==
    batch[CHOOSE i \in 1..Len(batch) :
            /\ batch[i].order_no = order_no
            /\ \A j \in (i + 1)..Len(batch) : batch[j].order_no # order_no]

\* the order numbers of the rows of batch that are not skipped
BatchOrderNos(batch) == { batch[i].order_no : i \in 1..Len(batch) } \ {""}

\* a table without its updated_at column
WithoutUpdatedAt(table) ==
    { [order_no |-> r.order_no, sale_amount_usd |-> r.sale_amount_usd,
       customize1_id |-> r.customize1_id, final_url |-> r.final_url,
       created_at |-> r.created_at] : r \in table }

\* C1: over every sequence of ledger operations, final_url of a record changes
\* only from NULL to a value: once it holds a value, the record keeps exactly
\* that value in the next state.
C1_FinalUrlWriteOnce ==
    [][\A r \in orders :
          r.final_url # NULL =>
             \E q \in orders' : q.order_no = r.order_no /\ q.final_url = r.final_url]_vars

\* C2: the list returned by get_orders_without_final_url holds no record
\* whose final_url is not NULL.
C2_UnresolvedOnlyNull ==
    last_op.op = "query" =>
        \A i \in 1..Len(last_op.ret) : last_op.ret[i].final_url = NULL

\* C2 witness: a query returned a record while the table also holds a record
\* with a final_url
C2_Witness ==
    /\ last_op.op = "query"
    /\ Len(last_op.ret) >= 1
    /\ \E r \in orders : r.final_url # NULL

\* C3: a successful save_orders_to_db that repeats the previous successful
\* call with the same batch leaves every record and every field except
\* updated_at as the first call left them.
C3_SaveIdempotent ==
    [][(/\ last_op'.op = "save"
        /\ last_op'.again
        /\ last_op'.ret) => WithoutUpdatedAt(orders') = WithoutUpdatedAt(orders)]_vars

\* C3 witness: the same batch was saved twice in a row and a record of it
\* was inserted by the first call and updated by the second
C3_Witness ==
    /\ last_op.op = "save"
    /\ last_op.again
    /\ last_op.ret
    /\ \E r \in orders :
          /\ r.order_no \in BatchOrderNos(last_op.batch)
          /\ r.created_at < r.updated_at

\* C4: the table holds at most one record per order_no and none with an
\* empty order_no; a save that meets no database error succeeds and leaves
\* exactly the order numbers that were there plus those of its non-empty rows
\* (an existing order_no is updated, a row with an empty order_no adds nothing).
C4_OrderNoUnique ==
    /\ \A r, q \in orders : r.order_no = q.order_no => r = q
    /\ \A r \in orders : r.order_no # ""
    /\ (last_op.op = "save" /\ ~last_op.dbError) =>
          /\ last_op.ret
          /\ BatchOrderNos(last_op.batch) \subseteq { r.order_no : r \in orders }
          /\ (BatchOrderNos(last_op.batch) = {} =>
                 \A r \in orders : r.updated_at < now)

\* C4 witness: a batch holding a row with an empty order_no and a row for an
\* order that was already in the table has been saved
C4_Witness ==
    /\ last_op.op = "save"
    /\ last_op.ret
    /\ \E i \in 1..Len(last_op.batch) : last_op.batch[i].order_no = ""
    /\ \E r \in orders :
          /\ r.order_no \in BatchOrderNos(last_op.batch)
          /\ r.created_at < r.updated_at

\* C5: a successful save_orders_to_db leaves, for every non-empty order_no of
\* the batch, a record that carries the values of the batch's (last) row for
\* it; when the order existed before, its created_at and final_url are the
\* old ones; when it did not, final_url is NULL. Records of other orders are
\* untouched.
C5_UpsertFrame ==
    [][(last_op'.op = "save" /\ last_op'.ret) =>
          /\ \A o \in BatchOrderNos(last_op'.batch) :
                /\ Exists(orders', o)
                /\ LET row == LastRowOf(last_op'.batch, o)
                       q == RecordOf(orders', o)
                   IN  /\ q.sale_amount_usd = row.sale_amount_usd
                       /\ q.customize1_id = row.customize1_id
                       /\ q.updated_at = now'
                       /\ IF Exists(orders, o)
                            THEN /\ q.created_at = RecordOf(orders, o).created_at
                                 /\ q.final_url = RecordOf(orders, o).final_url
                            ELSE /\ q.created_at = now'
                                 /\ q.final_url = NULL
          /\ \A r \in orders : r.order_no \notin BatchOrderNos(last_op'.batch) => r \in orders'
          /\ \A q \in orders' : q.order_no \notin BatchOrderNos(last_op'.batch) => q \in orders]_vars

\* C5 witness: a save has updated a record that had a final_url and has
\* inserted another one
C5_Witness ==
    /\ last_op.op = "save"
    /\ last_op.ret
    /\ \E r, q \in orders :
          /\ r.order_no \in BatchOrderNos(last_op.batch)
          /\ r.final_url # NULL
          /\ r.created_at < r.updated_at
          /\ q.order_no \in BatchOrderNos(last_op.batch)
          /\ q.created_at = now

\* the step is an update_order_final_url call
UpdateCalled == now' = now + 1 /\ last_op'.op = "update"

\* C24: update_order_final_url for an order_no that is not in the ledger
\* creates no record, changes no record and returns to its caller without
\* an exception (True, or False when the database failed).
C24_UpdateOfMissingIsNoOp ==
    [][(UpdateCalled /\ ~Exists(orders, last_op'.order_no))
       => /\ orders' = orders
          /\ last_op'.ret \in BOOLEAN]_vars

\* C24 witness: the ledger holds a record, the update named another order
\* number and returned True
C24_Witness ==
    /\ last_op.op = "update"
    /\ last_op.ret
    /\ orders # {}
    /\ ~Exists(orders, last_op.order_no)

\* C36: a save_orders_to_db call in which a statement or the commit fails
\* returns False and leaves the ledger as it was before the call: no row of
\* the batch is kept, no other record changes.
C36_FailedSaveLeavesLedger ==
    [][(last_op'.op = "save" /\ ~last_op'.ret) => orders' = orders]_vars

\* C36 witness: on a ledger that holds a record, the save failed at its
\* second row, after the INSERT of a new order; that order is not in the
\* ledger
C36_Witness ==
    /\ last_op.op = "save"
    /\ ~last_op.ret
    /\ last_op.failAt = 2
    /\ last_op.batch[1].order_no # ""
    /\ ~Exists(orders, last_op.batch[1].order_no)
    /\ orders # {}

----------------------------------------------------------------------------
(* Properties of the credential cache and the probe *)

\* the parsed text of a cache file
Parsed(file) == JsonLoad(file.text)

\* a cache file as save_headers_to_cache leaves it: an object with an ISO
\* timestamp and a header set
CompleteFile(file) ==
    /\ file.exists
    /\ Parsed(file).ok
    /\ Parsed(file).object
    /\ {"timestamp", "headers"} \subseteq DOMAIN Parsed(file).val
    /\ ~Parsed(file).val["timestamp"].object
    /\ IsIsoFormat(Parsed(file).val["timestamp"].val)
    /\ Parsed(file).val["headers"].object

\* the clock value a complete cache file was written at
CapturedAt(file) == FromIsoFormat(Parsed(file).val["timestamp"].val)

\* a cache file that is missing, is not JSON, holds no object, lacks the
\* timestamp or has a timestamp that is no ISO date
Unusable(file) ==
    \/ ~file.exists
    \/ ~Parsed(file).ok
    \/ ~Parsed(file).object
    \/ "timestamp" \notin DOMAIN Parsed(file).val
    \/ Parsed(file).val["timestamp"].object
    \/ ~IsIsoFormat(Parsed(file).val["timestamp"].val)

\* C6 as stated: run's load_cached_headers returns the stored header set for
\* every age up to and including 24 hours, and None (and then no probe, but
\* a login) for every age above 24 hours.
C6_StaleAbove24h ==
    [][(pc = "start" /\ pc' # "start" /\ CompleteFile(headers_file)) =>
          IF now - CapturedAt(headers_file) <= 24
            THEN cached_headers' = StoredHeaders(headers_file) /\ pc' = "probe"
            ELSE cached_headers' = None /\ pc' = "login"]_vars

\* C6 amended: run's load_cached_headers returns the stored header set for
\* every age below 24 hours, and None (and then no probe, but a login) for
\* every age of 24 hours or more.
C6_StaleFrom24h ==
    [][(pc = "start" /\ pc' # "start" /\ CompleteFile(headers_file)) =>
          IF now - CapturedAt(headers_file) < 24
            THEN cached_headers' = StoredHeaders(headers_file) /\ pc' = "probe"
            ELSE cached_headers' = None /\ pc' = "login"]_vars

\* C6 witness: a complete credential of exactly 24 hours was loaded as None
\* and the run stands before login, without a probe
C6_Witness ==
    /\ pc = "login"
    /\ probe = NoResponse
    /\ CompleteFile(headers_file)
    /\ now - CapturedAt(headers_file) = 24
    /\ cached_headers = None

\* C7: when the cache file is missing, not parseable, without timestamp or
\* with an unparsable timestamp, load_cached_headers raises nothing and
\* returns None, and run goes on to login.
C7_LoadNeverRaises ==
    [][(pc = "start" /\ pc' # "start" /\ Unusable(headers_file)) =>
          /\ pc' = "login"
          /\ cached_headers' = None
          /\ run_ret' = "running"]_vars

\* C7 witness: a file whose timestamp is no ISO date was loaded as None and
\* the run stands before login
C7_Witness ==
    /\ pc = "login"
    /\ cached_headers = None
    /\ headers_file.exists
    /\ Parsed(headers_file).ok
    /\ Parsed(headers_file).object
    /\ "timestamp" \in DOMAIN Parsed(headers_file).val
    /\ ~Parsed(headers_file).val["timestamp"].object
    /\ ~IsIsoFormat(Parsed(headers_file).val["timestamp"].val)

\* C8: a load_cached_headers after a save_headers_to_cache that was cut
\* short by a crash returns None, or the header set the file stored before
\* that save, or the header set that save was writing, and nothing else.
C8_NoHalfWrittenCredential ==
    (cache_op.op = "load" /\ cache_op.after_crash) =>
        /\ ~cache_op.raised
        /\ \/ cache_op.value = None
           \/ cache_op.value = cache_op.before
           \/ cache_op.value = Dict(cache_op.headers)

\* C8 witness: the crash came while the header set was being written over a
\* stored one, and the load returned None
C8_Witness ==
    /\ cache_op.op = "load"
    /\ cache_op.after_crash
    /\ cache_op.before # None
    /\ Len(headers_file.text) > 5
    /\ Len(headers_file.text) < Len(JsonDump("0", cache_op.headers))
    /\ cache_op.value = None

BodyContains(body, phrase) ==
    \/ /\ body.kind = "object"
       /\ \/ body.msg.kind = "str" /\ Contains(body.msg.text, phrase)
          \/ Contains(body.data, phrase)
    \/ body.kind = "text" /\ Contains(body.text, phrase)

\* the probe has classified the response at hand
Classified == pc \in {"login", "import"} /\ probe # NoResponse

ProbeFails(response) ==
    \/ response.raised
    \/ response.status_code # 200
    \/ response.body.kind # "object"
    \/ /\ response.body.success # "true"
       /\ \/ response.body.msg.kind = "null"
          \/ response.body.msg.kind = "str" /\ Contains(response.body.msg.text, TokenInvalid)

\* the step that sends the export request
ExportRequest == pc = "fetch" /\ hist'.export_sent

\* C12: the export request is sent only with a header set that a login of
\* this run produced or that this run read from the cache and the probe
\* classified valid; after a probe that failed (exception, timeout, non-200
\* status, parse failure, token invalid) no export request is sent unless a
\* login succeeded in between.
C12_FailClosed ==
    [][ExportRequest =>
          /\ Truthy(headers)
          /\ IF hist.login_ret = "True"
               THEN probe = NoResponse
               ELSE /\ hist.login_ret = "none"
                    /\ probe # NoResponse
                    /\ ~ProbeFails(probe)
                    /\ headers = cached_headers]_vars

\* C12 witness: the cache held a header set, the probe failed, a login
\* succeeded and the export request was sent with the headers of the login
C12_Witness ==
    /\ hist.export_sent
    /\ hist.login_ret = "True"
    /\ Truthy(cached_headers)
    /\ Truthy(headers)

\* C14: when login has returned success, load_cached_headers called
\* immediately afterwards returns exactly the header set the login produced
\* and the run uses for the export.
C14_LoginSuccessUpdatesCache ==
    (pc = "import" /\ hist.login_ret = "True")
    => LET loaded == LoadCachedHeaders(headers_file, now)
       IN  ~loaded.raised /\ loaded.value = headers

----------------------------------------------------------------------------
(* Properties of one run, checked under SpecRun *)

\* the order numbers the run has finished with
Finished(o) == \A i \in 1..Len(todo) : todo[i].order_no # o

\* C13: once login has returned failure, whatever the reason (session setup,
\* navigation exception, token extraction), the run returns failure and
\* sends no export request, writes nothing to the ledger and calls the
\* resolver for no order.
C13_LoginFailureAborts ==
    hist.login_ret = "False" =>
        /\ pc \in {"finally", "done"}
        /\ run_ret = "False"
        /\ ~hist.export_sent
        /\ ~hist.ledger_written
        /\ \A o \in DOMAIN hist.calls : hist.calls[o] = 0
        /\ todo = << >>

\* C13 witness: a login that had started its session failed, the run has
\* returned failure and the session is closed
C13_Witness ==
    /\ pc = "done"
    /\ hist.login_ret = "False"
    /\ hist.sessions = 1
    /\ run_ret = "False"
    /\ orders \in EarlierOrders

\* C17: for each unresolved record the run processes, the resolver is called
\* at least once and at most 3 times; a call is made only for the record at
\* hand, never after a call for it returned a URL and never after its third
\* call; a record the run has finished with either got a URL or had 3
\* calls, and then the next record is at hand.
C17_OneToThreeCalls ==
    [][/\ \A o \in DOMAIN hist.calls :
             hist'.calls[o] > hist.calls[o] =>
                 /\ hist'.calls[o] = hist.calls[o] + 1
                 /\ todo # << >> /\ Head(todo).order_no = o
                 /\ o \in hist.listed
                 /\ o \notin hist.got_url
                 /\ hist.calls[o] < 3
       /\ \A o \in hist'.listed :
             /\ hist'.calls[o] <= 3
             /\ o \in hist'.got_url => Finished(o)'
             /\ Finished(o)' => /\ hist'.calls[o] >= 1
                                /\ o \in hist'.got_url \/ hist'.calls[o] = 3]_vars

\* C17 witness: the first record got its URL at the second call, the next
\* one had three calls without a URL, and the run went on to its end
C17_Witness ==
    /\ pc = "finally"
    /\ hist.listed = {"A100", "A200"}
    /\ hist.calls["A200"] = 2
    /\ "A200" \in hist.got_url
    /\ hist.calls["A100"] = 3
    /\ "A100" \notin hist.got_url

\* C18: when the run is through the orders of an export that yielded rows,
\* every record that was unresolved at query time and has both order_no and
\* customize1_id has had at least one resolver call, whatever the outcomes
\* of the records before it.
C18_EveryListedOrderAttempted ==
    (pc \in {"finally", "done"} /\ hist.export_sent)
    => \A o \in hist.listed : hist.calls[o] >= 1

\* the URL found for the first record did not reach the ledger
FirstWriteFailed ==
    \E r \in orders : r.order_no = "A200" /\ r.final_url = NULL

\* C18 witness: the update of the first record failed in the ledger, the
\* second record was attempted all the same and stayed without a URL after
\* three calls
C18_Witness ==
    /\ pc = "done"
    /\ hist.listed = {"A100", "A200"}
    /\ hist.calls["A200"] = 1
    /\ "A200" \in hist.got_url
    /\ FirstWriteFailed
    /\ hist.calls["A100"] = 3
    /\ "A100" \notin hist.got_url

\* the credential phase succeeded: login returned success, or the cached
\* headers were found valid and are in use
CredentialPhaseOk ==
    \/ hist.login_ret = "True"
    \/ hist.login_ret = "none" /\ Truthy(cached_headers) /\ headers = cached_headers

\* the fetch phase succeeded: the export request was answered with status
\* 200 and a body that parses: a success object with CSV text or no data, an
\* error object that says there is no data, or CSV text
FetchPhaseOk ==
    /\ hist.export_sent
    /\ ~hist.export.raised
    /\ hist.export.status_code = 200
    /\ LET p == hist.export.payload
       IN  \/ p.kind = "json" /\ p.success /\ p.code = 0 /\ p.data \in {"null", "empty", "csv"}
           \/ /\ p.kind = "json" /\ ~(p.success /\ p.code = 0)
              /\ p.msg.kind = "str" /\ Contains(Lower(p.msg.text), NoDataToExport)
           \/ p.kind = "csv"

\* C19: run returns success exactly when the credential phase and the fetch
\* phase succeeded, whatever number of orders was resolved.
C19_ReturnReflectsPhases ==
    (pc = "done" /\ runs = MaxRuns)
    => /\ run_ret \in {"True", "False"}
       /\ run_ret = "True" <=> (CredentialPhaseOk /\ FetchPhaseOk)

\* C19 witness: run returned success although no URL was found for either
\* of the two orders
C19_Witness ==
    /\ pc = "done"
    /\ runs = MaxRuns
    /\ run_ret = "True"
    /\ hist.listed = {"A100", "A200"}
    /\ hist.got_url = {}

\* C20: a run starts at most one browser session and uses it for all later
\* calls; the session is closed once, in the finally block, and not before;
\* after run has returned no session is live.
C20_OneSessionReleasedOnce ==
    /\ hist.sessions <= 1
    /\ driver = "live" <=> (hist.sessions = 1 /\ hist.quits = 0)
    /\ pc # "done" => hist.quits = 0
    /\ pc = "done" => (driver # "live" /\ hist.quits = hist.sessions)

\* C20 witness: the run used cached headers, the session was started by the
\* first resolver call, served the calls of two orders and was closed once
C20_Witness ==
    /\ pc = "done"
    /\ hist.login_ret = "none"
    /\ hist.sessions = 1
    /\ hist.quits = 1
    /\ driver = "quit"
    /\ hist.calls["A100"] >= 1
    /\ hist.calls["A200"] >= 2

\* the step of run that sends the export request and gets a status-200 body
ExportAnswered ==
    /\ pc = "fetch"
    /\ hist'.export_sent
    /\ ~hist'.export.raised
    /\ hist'.export.status_code = 200

\* the text holds the sentinel "no data to export" in some letter case
HoldsSentinel(msg) == msg.kind = "str" /\ Contains(Lower(msg.text), NoDataToExport)

\* an error envelope with the sentinel, or a success envelope (success
\* true, code 0) whose data is null or empty
NoDataEnvelope(p) ==
    /\ p.kind = "json"
    /\ \/ ~p.success /\ HoldsSentinel(p.msg)
       \/ p.success /\ p.code = 0 /\ p.data \in {"null", "empty"}

\* C21: when the status-200 export body is an error envelope (success false)
\* whose msg holds "no data to export" in any letter case, or a success
\* envelope (success true, code 0) with null or empty data, the fetch phase
\* returns success, no record is ingested and the ledger is unchanged.
C21_NoDataIsSuccess ==
    [][(ExportAnswered /\ NoDataEnvelope(hist'.export.payload))
       => /\ run_ret' = "True"
          /\ pc' = "finally"
          /\ orders' = orders
          /\ hist'.ingest = NoIngest
          /\ hist'.ledger_written = hist.ledger_written
          /\ todo' = << >>]_vars

\* C21 witness: the error envelope said "NO DATA TO EXPORT", run returned
\* success and the ledger of the earlier run is as it was
C21_Witness ==
    /\ pc = "done"
    /\ run_ret = "True"
    /\ hist.export.status_code = 200
    /\ hist.export.payload.kind = "json"
    /\ ~hist.export.payload.success
    /\ hist.export.payload.msg = Msg(<<"NO", "DATA", "TO", "EXPORT">>)
    /\ orders \in EarlierOrders
    /\ orders # {}

\* the rows of the ledger with their columns named as in the CSV text
FieldOf(record, column) ==
    IF column = ColOrderNo THEN record.order_no
    ELSE IF column = ColSaleAmount THEN record.sale_amount_usd
    ELSE record.customize1_id

\* a CSV text whose header names each column once, with "Order No." among
\* them, and whose data lines are complete and carry distinct non-empty
\* order numbers
WellFormedCsv(lines) ==
    /\ lines # << >>
    /\ \A i, j \in 1..Len(lines[1]) : lines[1][i] = lines[1][j] => i = j
    /\ \E k \in 1..Len(lines[1]) :
          /\ lines[1][k] = ColOrderNo
          /\ \A i \in 2..Len(lines) :
                /\ Len(lines[i]) = Len(lines[1])
                /\ lines[i][k] # ""
                /\ \A j \in 2..Len(lines) : lines[i][k] = lines[j][k] => i = j

\* C22: with an empty ledger, a success envelope (or raw CSV body) whose
\* CSV text has a header and n complete data lines with distinct non-empty
\* order numbers leaves, once save_orders_to_db has returned success,
\* exactly n records: one per data line, each field equal to the cell under
\* the column of that name ('' for a column the header lacks), final_url
\* unset.
C22_IngestByColumnName ==
    LET lines == hist.ingest.lines
    IN  (/\ WellFormedCsv(lines)
         /\ hist.ingest.before = {}
         /\ hist.ingest.saved
         /\ ~hist.ingest.imported)
        => /\ Cardinality(orders) = Len(lines) - 1
           /\ \A i \in 2..Len(lines) :
                 \E r \in orders :
                    /\ \A j \in 1..Len(lines[1]) : FieldOf(r, lines[1][j]) = lines[i][j]
                    /\ \A c \in {ColOrderNo, ColSaleAmount, ColCustomize1} :
                          (\A j \in 1..Len(lines[1]) : lines[1][j] # c) => FieldOf(r, c) = ""
                    /\ r.final_url = NULL

\* C22 witness: the header lists the sub-id first and the order number last;
\* the one data line became the record A100 with amount "12.50"
C22_Witness ==
    /\ hist.ingest.lines = << <<ColCustomize1, ColSaleAmount, ColOrderNo>>,
                              <<"sub1", "12.50", "A100">> >>
    /\ hist.ingest.before = {}
    /\ hist.ingest.saved
    /\ \E r \in orders : r.order_no = "A100" /\ r.sale_amount_usd = "12.50"
    /\ Cardinality(orders) = 1

\* the export fetch failed: no response, a status other than 200, an error
\* envelope without the sentinel, or a body that is neither JSON nor CSV
FetchFails(export) ==
    \/ export.raised
    \/ export.status_code # 200
    \/ export.payload.kind = "json" /\ ~export.payload.success /\ ~HoldsSentinel(export.payload.msg)
    \/ export.payload.kind = "text"

\* C23: when the export fetch fails, fetch_orders and run return failure,
\* the ledger stays as it was and the resolver is called for no order.
C23_FetchFailureIsFatal ==
    [][(hist'.export_sent /\ FetchFails(hist'.export))
       => /\ run_ret' = "False"
          /\ pc' \in {"finally", "done"}
          /\ orders' = orders
          /\ todo' = << >>
          /\ hist'.got_url = {}
          /\ \A o \in DOMAIN hist'.calls : hist'.calls[o] = 0]_vars

\* C23 witness: the body of the export was neither JSON nor CSV, run
\* returned failure and the unresolved order of the earlier run is still
\* unresolved
C23_Witness ==
    /\ pc = "done"
    /\ run_ret = "False"
    /\ hist.export_sent
    /\ hist.export.status_code = 200
    /\ hist.export.payload.kind = "text"
    /\ \E r \in orders : r.final_url = NULL

\* C35: the follow_all_redirects calls of a run go down the order numbers:
\* a call is for the record of the call before or for one with a smaller
\* order_no, so the calls for one record are in a row and no record is come
\* back to.
C35_DescendingSequential ==
    \A i \in 1..(Len(hist.trail) - 1) :
        OrderNoRank(hist.trail[i + 1]) <= OrderNoRank(hist.trail[i])

\* C35 witness: two calls for A200, then the calls for A100
C35_Witness ==
    /\ Len(hist.trail) >= 4
    /\ hist.trail[1] = "A200"
    /\ hist.trail[2] = "A200"
    /\ hist.trail[3] = "A100"
    /\ hist.trail[4] = "A100"

\* C37: in a run, update_order_final_url is called only for a record whose
\* final_url is NULL when the call is made, only with the URL that
\* follow_all_redirects returned in the same attempt, which is neither None
\* nor empty, and at most once for an order.
C37_UpdateOnlyUnresolvedOnce ==
    /\ \A i \in 1..Len(hist.updates) :
          /\ hist.updates[i].had = NULL
          /\ hist.updates[i].final_url = hist.updates[i].returned
          /\ hist.updates[i].final_url \notin {NoUrl, ""}
    /\ \A i, j \in 1..Len(hist.updates) :
          hist.updates[i].order_no = hist.updates[j].order_no => i = j

\* C37 witness: both records got their URL, the second one after a call
\* that had returned None
C37_Witness ==
    /\ Len(hist.updates) = 2
    /\ hist.calls["A100"] = 2
    /\ hist.updates[2].order_no = "A100"
    /\ \A r \in orders : r.final_url # NULL

\* C38: a run whose export answer was the no-data sentinel or a success
\* envelope with null or empty data returns True without having called
\* get_orders_without_final_url or follow_all_redirects; the records that
\* were without final_url when the run began still are.
C38_NoDataSkipsResolution ==
    (/\ pc \in {"finally", "done"}
     /\ hist.export_sent
     /\ ~hist.export.raised
     /\ hist.export.status_code = 200
     /\ NoDataEnvelope(hist.export.payload))
    => /\ run_ret = "True"
       /\ ~hist.queried
       /\ hist.trail = << >>
       /\ hist.updates = << >>
       /\ hist.open_before \subseteq OpenOrders(orders)

\* C38 witness: the export said the data is empty; the run ended with True
\* and the order an earlier run left unresolved is still unresolved
C38_Witness ==
    /\ pc = "done"
    /\ run_ret = "True"
    /\ hist.export.status_code = 200
    /\ hist.export.payload.kind = "json"
    /\ hist.export.payload.success
    /\ hist.export.payload.data = "empty"
    /\ hist.open_before = {"A100"}
    /\ \E r \in orders : r.order_no = "A100" /\ r.final_url = NULL

----------------------------------------------------------------------------
(* Properties of a scraper used after run, checked under SpecReuse *)

\* C40: in any sequence of run, login and follow_all_redirects calls on one
\* scraper, driver.get is never called on a session that has been quit.
C40_NoUseAfterQuit == ~hist.stale

----------------------------------------------------------------------------
(* Properties of login, checked under Spec and SpecExtract *)

\* C25: the cache file changes only in the save of a login that has
\* extracted its headers in this run and returns success (or before run, by
\* --force-login); a run without a successful login, be it with a cached
\* credential found valid or with a failed login, ends with the file it
\* began with, timestamp included.
C25_OnlyLoginWritesCache ==
    [][/\ headers_file' # headers_file
          => \/ pc \in {"idle", "done"}
             \/ pc = "save" /\ hist.extractions = 1 /\ hist'.login_ret = "True"
       /\ (pc' = "done" /\ hist'.login_ret # "True") => headers_file' = hist'.cache_before]_vars

\* C25 witness: a run used the cached credential at the age of 23 hours and
\* ended; the file still carries the timestamp of its capture
C25_Witness ==
    /\ pc = "done"
    /\ hist.login_ret = "none"
    /\ Truthy(headers)
    /\ headers = cached_headers
    /\ CompleteFile(headers_file)
    /\ now - CapturedAt(headers_file) = 23

\* extract_auth_headers has been called
Extracted == extraction.op = "call"

\* the Authorization header of self.headers
Authorization == headers.dict["Authorization"]

\* C26 as stated: with an override token, no extraction strategy is run and
\* the assembled Authorization header equals the override token.
C26_OverrideShortCircuits ==
    (Extracted /\ manual_auth_token # "")
    => /\ extraction.strategies = 0
       /\ extraction.ok => Authorization = manual_auth_token

\* C26 amended: with an override token, the strategies are still run before
\* the override is applied, their result is discarded and the assembled
\* Authorization header equals the override token.
C26_OverrideWins ==
    (Extracted /\ manual_auth_token # "")
    => /\ ~extraction.cookiesRaise => extraction.strategies >= 1
       /\ extraction.ok => Authorization = manual_auth_token

\* C26 witness: the storage held tokA, the override is tokB, and the headers
\* carry tokB
C26_Witness ==
    /\ Extracted
    /\ manual_auth_token = "tokB"
    /\ extraction.page.storage = "tokA"
    /\ extraction.strategies = 1
    /\ extraction.ok
    /\ Authorization = "tokB"

\* what the strategies find on a page, in their order
Found(page) == <<page.storage, page.globals, page.meta, page.script>>

\* the first value of a sequence outside a set, or '' when there is none
FirstOutside(values, skipped) ==
    IF \A i \in 1..Len(values) : values[i] \in skipped THEN ""
    ELSE values[CHOOSE i \in 1..Len(values) :
                    /\ values[i] \notin skipped
                    /\ \A k \in 1..(i - 1) : values[k] \in skipped]

\* extract_auth_token was called without an override and its first script
\* call did not raise
SearchedPage ==
    Extracted /\ manual_auth_token = "" /\ ~extraction.cookiesRaise /\ ~extraction.page.raises

\* C27 as stated: without an override, the extracted token is the value of
\* the first strategy that yields a non-empty, non-placeholder value; an
\* empty value or the placeholder does not stop the search.
C27_FirstNonPlaceholderWins ==
    SearchedPage =>
        LET v == FirstOutside(Found(extraction.page), {"", Placeholder})
        IN  v # "" => (extraction.token = v /\ extraction.ok /\ Authorization = v)

\* C27 amended: without an override, the extracted token is the value of the
\* first strategy that yields a non-empty value; an empty value does not
\* stop the search, the placeholder does: it is returned and rejected, and
\* no header set is assembled.
C27_FirstNonEmptyWins ==
    SearchedPage =>
        LET v == FirstOutside(Found(extraction.page), {""})
        IN  /\ v # "" => extraction.token = v
            /\ v \notin {"", Placeholder} => (extraction.ok /\ Authorization = v)
            /\ v \in {"", Placeholder} => (~extraction.ok /\ headers = Unset)

\* C27 witness: storage and global variables held nothing, the meta tag
\* held tokA and the scripts tokB; tokA was taken
C27_Witness ==
    /\ SearchedPage
    /\ Found(extraction.page) = <<"", "", "tokA", "tokB">>
    /\ extraction.token = "tokA"
    /\ extraction.ok
    /\ Authorization = "tokA"

\* C28: when no override is set and every strategy came back empty, login
\* returns failure at once: self.headers is not assigned, the cache file is
\* as it was when run began, the portal was opened once and the extraction
\* ran once; run returns failure.
C28_ExhaustionEndsLogin ==
    hist.exhausted =>
        /\ hist.login_ret = "False"
        /\ headers = Unset
        /\ headers_file = hist.cache_before
        /\ hist.navigations = 1
        /\ hist.extractions = 1
        /\ pc \in {"finally", "done"}
        /\ run_ret = "False"

\* C28 witness: a run whose cached credential failed the probe ended after
\* an exhausted extraction, the session closed and the cache file in place
C28_Witness ==
    /\ pc = "done"
    /\ hist.exhausted
    /\ driver = "quit"
    /\ Truthy(cached_headers)
    /\ headers_file # Missing

\* C29: when no email input appeared within the wait, no credentials are
\* typed or sent, and login goes on to wait_for_network_idle and to the
\* extraction: it has not returned before extract_auth_headers was called.
C29_NoFormMeansLoggedIn ==
    hist.form = "timeout" =>
        /\ ~hist.typed
        /\ ~hist.submitted
        /\ \/ pc = "settle" /\ hist.settles = 0 /\ hist.extractions = 0 /\ hist.login_ret = "none"
           \/ pc = "extract" /\ hist.settles = 1 /\ hist.extractions = 0 /\ hist.login_ret = "none"
           \/ hist.settles = 1 /\ hist.extractions = 1

\* C29 witness: no form appeared, the token was extracted and login
\* returned success
C29_Witness ==
    /\ hist.form = "timeout"
    /\ hist.login_ret = "True"
    /\ hist.settles = 1
    /\ Truthy(headers)

----------------------------------------------------------------------------
(* Properties of wait_for_network_idle, checked under SpecIdle *)

\* no state other than the loaded one was seen during the idle interval
\* that ends at time t
QuietUntil(t) == \A u \in idle.loading_seen : t - u >= IdleTime

\* C30: wait_for_network_idle always returns, and always True: with the
\* idle outcome only when the page was seen loaded, at least the idle
\* interval after the start and after the last other state; it does not go
\* on waiting once that holds; otherwise it returns when the timeout has
\* run out or the page state could not be read.
C30_AlwaysSettles ==
    /\ [](idle.op = "returned" =>
            /\ idle.ret = TRUE
            /\ idle.reason \in {"idle", "timeout", "unreadable", "fallback"}
            /\ idle.reason = "idle" =>
                  /\ idle.last_seen.ready_state = "complete"
                  /\ idle.t >= IdleTime
                  /\ QuietUntil(idle.t)
            /\ idle.reason = "timeout" => idle.t >= idle.timeout
            /\ idle.reason = "unreadable" => idle.last_seen.ready_state = "raises")
    /\ [](idle.op = "waiting" =>
            ~(/\ idle.last_seen.ready_state = "complete"
              /\ idle.last_seen.at >= IdleTime
              /\ QuietUntil(idle.last_seen.at)))
    /\ (idle.op = "waiting" ~> idle.op = "returned")

\* C30 witness: the page was seen loading, then loaded for the idle
\* interval, and the call returned True before its timeout
C30_Witness ==
    /\ idle.op = "returned"
    /\ idle.ret = TRUE
    /\ idle.reason = "idle"
    /\ idle.loading_seen # {}
    /\ idle.t < idle.timeout

----------------------------------------------------------------------------
(* Properties of follow_all_redirects pass by pass, checked under          *)
(* SpecFollow                                                              *)

\* a follow_all_redirects call that has returned
FollowReturned == resolver.op = "returned"

\* C31: every follow_all_redirects call returns, whatever the browser shows
\* at each navigation (redirects in a circle, redirects without end), after
\* at most max_redirects navigations, with a URL (the final outcome) or with
\* None (an abort).
C31_FollowTerminates ==
    /\ [](resolver.op \in {"loop", "returned"} =>
            Len(resolver.navigated) <= resolver.max_redirects)
    /\ [](FollowReturned =>
            /\ resolver.result.outcome \in
                  {"final", "invalid", "circular", "max_redirects", "error", "no_driver"}
            /\ (resolver.result.ret # NoUrl) <=> (resolver.result.outcome = "final"))
    /\ (resolver.op = "loop" ~> FollowReturned)

\* C31 witness: with max_redirects = 3 the browser went on to a new URL at
\* each of three navigations and the call returned None
C31_Witness ==
    /\ FollowReturned
    /\ resolver.max_redirects = 3
    /\ Len(resolver.navigated) = 3
    /\ Cardinality(Range(resolver.navigated) \cup {resolver.current_url}) = 4
    /\ resolver.result.outcome = "max_redirects"
    /\ resolver.result.ret = NoUrl

\* the i-th navigation of the call left the URL as requested and showed a
\* page with the history.back() directive
SentBackAt(i) ==
    /\ ~resolver.met[i].raises
    /\ resolver.met[i].landed = resolver.navigated[i]
    /\ "window.history.back()" \in resolver.met[i].content

\* C32: once a navigation has left the URL unchanged and shown a page with
\* window.history.back(), the call has returned None with the invalid
\* outcome and that navigation is its last; a call that returns a URL has
\* inspected no page with the directive.
C32_HistoryBackAborts ==
    resolver.op \in {"loop", "returned"} =>
        \A i \in 1..Len(resolver.navigated) :
            SentBackAt(i) =>
                /\ FollowReturned
                /\ resolver.result.outcome = "invalid"
                /\ resolver.result.ret = NoUrl
                /\ i = Len(resolver.navigated)

\* C32 witness: the seed redirected to a second URL, whose page held the
\* directive; the call ended there with the invalid outcome
C32_Witness ==
    /\ FollowReturned
    /\ Len(resolver.navigated) = 2
    /\ SentBackAt(2)
    /\ resolver.result.outcome = "invalid"
    /\ resolver.max_redirects = DefaultMaxRedirects

\* the page shown at the last navigation of the call
LastMet == resolver.met[Len(resolver.met)]

\* C33: a URL returned by follow_all_redirects is the URL requested at the
\* last navigation of the call; driver.current_url after that navigation was
\* equal to it; and when the page held a redirect marker ('redirecting' or
\* 'window.location'), driver.current_url was still equal to it after the
\* wait that follows (and, for 'redirecting', after the longer wait too).
C33_ReturnedUrlIsStable ==
    (FollowReturned /\ resolver.result.ret # NoUrl) =>
        /\ resolver.navigated # << >>
        /\ resolver.result.ret = resolver.navigated[Len(resolver.navigated)]
        /\ ~LastMet.raises
        /\ LastMet.landed = resolver.result.ret
        /\ ("redirecting" \in LastMet.content \/ "window.location" \in LastMet.content) =>
              LastMet.after_wait = resolver.result.ret
        /\ "redirecting" \in LastMet.content => LastMet.after_long_wait = resolver.result.ret

\* C33 witness: after one redirect the second page held 'window.location'
\* but the URL stayed, and it was returned
C33_Witness ==
    /\ FollowReturned
    /\ Len(resolver.navigated) = 2
    /\ resolver.result.ret = resolver.navigated[2]
    /\ resolver.result.ret # resolver.url
    /\ "window.location" \in LastMet.content

\* C34: the visited set of a follow_all_redirects call holds the URLs that
\* call has navigated to and nothing else, so it is empty when the call
\* starts and a circular-redirect abort is always about a URL navigated to
\* in the same call; and no step of a call changes the ledger or the cache
\* file.
C34_NoStateAcrossCalls ==
    /\ [](resolver.op \in {"loop", "returned"} =>
            /\ resolver.visited_urls = Range(resolver.navigated)
            /\ resolver.result.outcome = "circular" =>
                  resolver.current_url \in Range(resolver.navigated))
    /\ [][orders' = orders /\ headers_file' = headers_file]_vars

\* C34 witness: the second call on the scraper returned the seed URL, which
\* the first call had navigated to as well
C34_Witness ==
    /\ FollowReturned
    /\ resolver.calls = 2
    /\ Seed \in resolver.earlier
    /\ resolver.result.outcome = "final"
    /\ resolver.result.ret = Seed
    /\ orders # {}

----------------------------------------------------------------------------
(* Properties of the redirect resolver, checked under SpecResolver *)

\* where the browser ends up when it is sent to u: the URL of a redirect
\* during the load or of a script redirect, or u itself
MovesTo(web, u) ==
    LET page == web[u]
    IN  IF page.raises THEN u
        ELSE IF page.landed # u THEN page.landed
        ELSE IF "window.history.back()" \in page.content THEN u
        ELSE IF page.after_wait # u THEN page.after_wait
        ELSE page.after_long_wait

\* the seed redirects to a second URL, which redirects back to the seed
BackToSeed(web) ==
    MovesTo(web, Seed) # Seed /\ MovesTo(web, MovesTo(web, Seed)) = Seed

\* three redirects in a row between four distinct URLs, from the seed on
ChainOfThree(web) ==
    LET a == MovesTo(web, Seed)
        b == MovesTo(web, a)
        c == MovesTo(web, b)
    IN  Cardinality({Seed, a, b, c}) = 4

\* no URL occurs twice in the sequence
NoDuplicates(urls) == \A i, j \in 1..Len(urls) : urls[i] = urls[j] => i = j

\* a follow_all_redirects call that had a browser session to work with
Followed == resolver.op = "call" /\ resolver.result.outcome # "no_driver"

\* C15 as stated: when the seed redirects to a second URL that redirects back
\* to the seed, follow_all_redirects ends with the circular-redirect outcome,
\* returns no URL and never hands driver.get a URL it has visited.
C15_CircularOutcome ==
    (Followed /\ BackToSeed(resolver.web)) =>
        /\ resolver.result.outcome = "circular"
        /\ resolver.result.ret = NoUrl
        /\ NoDuplicates(resolver.result.navigated)

\* C15 amended: when the seed redirects to a second URL that redirects back
\* to the seed, follow_all_redirects returns no URL and never hands
\* driver.get a URL it has visited; it ends with the circular-redirect
\* outcome when max_redirects is above 2, and with the max-redirects outcome
\* when max_redirects is 1 or 2.
C15_CircularOrBudget ==
    (Followed /\ BackToSeed(resolver.web)) =>
        /\ resolver.result.outcome =
              IF resolver.max_redirects > 2 THEN "circular" ELSE "max_redirects"
        /\ resolver.result.ret = NoUrl
        /\ NoDuplicates(resolver.result.navigated)

\* C15 witness: with the default budget the loop came back to the seed after
\* two navigations and ended with the circular-redirect outcome
C15_Witness ==
    /\ Followed
    /\ BackToSeed(resolver.web)
    /\ resolver.max_redirects = DefaultMaxRedirects
    /\ resolver.result.outcome = "circular"
    /\ Len(resolver.result.navigated) = 2
    /\ resolver.result.current_url = Seed

\* C16: with max_redirects = 2 and three redirects in a row between distinct
\* URLs, follow_all_redirects ends with the max-redirects outcome and returns
\* no URL; and whatever the web and the budget, it returns no URL once
\* redirect_count has reached max_redirects.
C16_HopBudget ==
    Followed =>
        /\ (resolver.max_redirects = 2 /\ ChainOfThree(resolver.web)) =>
              (resolver.result.outcome = "max_redirects" /\ resolver.result.ret = NoUrl)
        /\ resolver.result.redirect_count >= resolver.max_redirects =>
              resolver.result.ret = NoUrl

\* C16 witness: a chain of three redirects was cut after the second hop
C16_Witness ==
    /\ Followed
    /\ resolver.max_redirects = 2
    /\ ChainOfThree(resolver.web)
    /\ resolver.result.outcome = "max_redirects"
    /\ resolver.result.redirect_count = 2
    /\ Len(resolver.result.navigated) = 2

\* the URL the browser is at after n redirects in a row, from u on
RECURSIVE After(_, _, _)
After(web, u, n) == IF n = 0 THEN u ELSE After(web, MovesTo(web, u), n - 1)

\* a page that loads, stays at its URL and does not send back
Stable(web, u) ==
    /\ ~web[u].raises
    /\ MovesTo(web, u) = u
    /\ "window.history.back()" \notin web[u].content

\* from the seed on, n redirects in a row over n + 1 distinct URLs, the last
\* of them stable
ChainEndsAfter(web, n) ==
    /\ Cardinality({ After(web, Seed, k) : k \in 0..n }) = n + 1
    /\ \A k \in 0..(n - 1) : ~web[After(web, Seed, k)].raises
    /\ Stable(web, After(web, Seed, n))

\* C39: follow_all_redirects returns a URL only after fewer URL changes than
\* max_redirects; a chain of exactly max_redirects redirects that ends at a
\* stable page gives the max-redirects outcome, with max_redirects
\* navigations, none of them to the last URL; so the call with
\* max_redirects = 2 returns the seed itself or the URL one hop after it.
C39_StrictlyFewerThanBudget ==
    Followed =>
        /\ resolver.result.ret # NoUrl =>
              /\ Len(resolver.result.navigated) - 1 < resolver.max_redirects
              /\ resolver.result.ret = After(resolver.web, Seed, Len(resolver.result.navigated) - 1)
        /\ (/\ resolver.max_redirects < Cardinality(ResolverUrls)
            /\ ChainEndsAfter(resolver.web, resolver.max_redirects)) =>
              /\ resolver.result.outcome = "max_redirects"
              /\ resolver.result.ret = NoUrl
              /\ Len(resolver.result.navigated) = resolver.max_redirects
              /\ \A i \in 1..Len(resolver.result.navigated) :
                    resolver.result.navigated[i] #
                        After(resolver.web, Seed, resolver.max_redirects)
        /\ (resolver.max_redirects = CallMaxRedirects /\ resolver.result.ret # NoUrl) =>
              resolver.result.ret \in {Seed, MovesTo(resolver.web, Seed)}

\* C39 witness: with max_redirects = 2 the seed redirected twice, to a page
\* that would have stayed; the call returned None without loading it
C39_Witness ==
    /\ Followed
    /\ resolver.max_redirects = CallMaxRedirects
    /\ ChainEndsAfter(resolver.web, 2)
    /\ resolver.result.outcome = "max_redirects"
    /\ resolver.result.navigated = <<Seed, MovesTo(resolver.web, Seed)>>

====
